---- MODULE Spec2Model ----
(***************************************************************************)
(* Model of the OpenAI <-> Claude response converters of                   *)
(* src/src/claude.ts: the stream re-encoder in its two entry points        *)
(* (convertStreamResponse, the manual SSE parser, and                      *)
(* convertStreamWithSDK, the SDK event iterator), the stop-reason mapping  *)
(* and the dispatch of convertToClaudeResponse.                            *)
(*                                                                         *)
(* Both stream entry points are driven by the same upstream: every         *)
(* upstream line is handed to the loop body of convertStreamResponse and,  *)
(* when it carries an event, to the loop body of convertStreamWithSDK.     *)
(* Chunks are compared up to the fields id, model and created, which are   *)
(* not modelled.  Strings are sequences of characters.                     *)
(*                                                                         *)
(* Beside them, each with a specification of its own: the retrying         *)
(* transport fetchWithRetry of src/src/index.ts (SpecRetry), the model     *)
(* mapping table of src/src/claude.ts (SpecMapper), and the request        *)
(* converter convertMessages with its two request builders under the       *)
(* handler handleOpenAIToClaude (SpecReq).                                 *)
(***************************************************************************)
EXTENDS Integers, Sequences, FiniteSets, TLC

\* Bound on the number of newline-terminated upstream lines of one stream.
MaxLines == 3

\* Bound on the lines of a stream made of content-block events alone.
MaxBlockLines == 4

(***************************************************************************)
(* Upstream lines                                                          *)
(***************************************************************************)
Frags == {<<>>, <<"a">>, <<"b">>}
TextFrags == {<<>>, <<"a">>}
ToolIds == {"t1", "t2"}
\* stop_reason of a message_delta: a listed reason, an unlisted one, or no
\* stop_reason key at all ("absent"); "null" is the JSON null.
StopReasons == {"end_turn", "tool_use", "max_tokens", "stop_sequence", "absent"}

Line(t, k, str, id, r) == [type |-> t, kind |-> k, s |-> str, id |-> id, stop |-> r]

NoLine == Line("none", "", <<>>, "", "null")

Events ==
    {Line("message_start", "", <<>>, "", "null")}
    \cup {Line("content_block_start", k, <<>>, "", "null") : k \in {"text", "thinking"}}
    \cup {Line("content_block_start", "tool_use", <<>>, id, "null") : id \in ToolIds}
    \cup {Line("content_block_delta", k, f, "", "null") :
            k \in {"text_delta", "thinking_delta"}, f \in TextFrags}
    \cup {Line("content_block_delta", "input_json_delta", f, "", "null") : f \in Frags}
    \cup {Line("content_block_stop", "", <<>>, "", "null")}
    \cup {Line("message_delta", "", <<>>, "", r) : r \in StopReasons}
    \cup {Line("message_stop", "", <<>>, "", "null")}
    \cup {Line("ping", "", <<>>, "", "null")}

\* "skip": a line the loop passes over before parsing (blank, not starting
\* with "data: ", or "data: [DONE]"); "bad": a data line JSON.parse rejects.
Lines == Events \cup {Line("skip", "", <<>>, "", "null"), Line("bad", "", <<>>, "", "null")}

\* the lines of the content-block life cycle
BlockLines ==
    {Line("content_block_start", k, <<>>, "", "null") : k \in {"text", "thinking"}}
    \cup {Line("content_block_start", "tool_use", <<>>, id, "null") : id \in ToolIds}
    \cup {Line("content_block_delta", "thinking_delta", f, "", "null") : f \in TextFrags}
    \cup {Line("content_block_delta", "input_json_delta", f, "", "null") : f \in Frags}
    \cup {Line("content_block_delta", "text_delta", <<"a">>, "", "null")}
    \cup {Line("content_block_stop", "", <<>>, "", "null")}

\* the lines tried as the unterminated last line of the body
TailLines ==
    {NoLine,
     Line("message_stop", "", <<>>, "", "null"),
     Line("message_delta", "", <<>>, "", "end_turn"),
     Line("content_block_delta", "text_delta", <<"a">>, "", "null"),
     Line("bad", "", <<>>, "", "null")}

(***************************************************************************)
(* Output chunks                                                           *)
(***************************************************************************)
Chunk(k, str, i, id, nm, r) ==
    [k |-> k, s |-> str, index |-> i, id |-> id, name |-> nm, reason |-> r]

RoleChunk == Chunk("role", <<>>, 0, "", "", "null")
ContentChunk(str) == Chunk("content", str, 0, "", "", "null")
ToolChunk(i, id, nm, args) == Chunk("tool", args, i, id, nm, "null")
FinishChunk(r) == Chunk("finish", <<>>, 0, "", "", r)
DoneChunk == Chunk("done", <<>>, 0, "", "", "null")

OpenTag == <<"<thinking>">>
CloseTag == <<"</thinking>">>

ToolName(id) == "fn"

(***************************************************************************)
(* Stop-reason mapping                                                     *)
(***************************************************************************)
\* convertStopReason with the max_tokens case lost
convertStopReason_NoLength(claudeStopReason) ==
    CASE claudeStopReason = "end_turn" -> "stop"
      [] claudeStopReason = "tool_use" -> "tool_calls"
      [] OTHER -> "null"

convertStopReason(claudeStopReason) ==
    CASE claudeStopReason = "end_turn" -> "stop"
      [] claudeStopReason = "tool_use" -> "tool_calls"
      [] claudeStopReason = "max_tokens" -> "length"
      [] OTHER -> "null"

\* the function of the same name local to convertStreamResponse
convertStopReasonLocal(claudeStopReason) ==
    CASE claudeStopReason = "end_turn" -> "stop"
      [] claudeStopReason = "tool_use" -> "tool_calls"
      [] claudeStopReason = "max_tokens" -> "length"
      [] OTHER -> "null"

(***************************************************************************)
(* convertStreamResponse: the manual SSE path.  Its accumulator is         *)
(*   inThinkingBlock, toolCalls, sentDone, sentFinishReason;               *)
(* out is what controller.enqueue has been handed, closed/released record  *)
(* controller.close() and reader.releaseLock().  (textContent is written   *)
(* and never read, responseId/model only label the chunks.)                *)
(***************************************************************************)
MInit ==
    [pc |-> "init", inThinkingBlock |-> FALSE, toolCalls |-> <<>>,
     sentDone |-> FALSE, sentFinishReason |-> FALSE,
     out |-> <<>>, closed |-> FALSE, released |-> FALSE]

\* controller.enqueue(encoder.encode(...))
MEnqueue(m, c) == [m EXCEPT !.out = Append(@, c)]

MMessageStart(m, l) == MEnqueue(m, RoleChunk)

MContentBlockStart(m, l) ==
    IF l.kind = "tool_use"
    THEN [m EXCEPT !.toolCalls =
            Append(@, [index |-> Len(m.toolCalls), id |-> l.id,
                       name |-> ToolName(l.id), arguments |-> <<>>])]
    ELSE IF l.kind = "thinking"
    THEN MEnqueue([m EXCEPT !.inThinkingBlock = TRUE], ContentChunk(OpenTag))
    ELSE m

\* MTextDelta that appends to textContent and enqueues nothing
MTextDelta_Silent(m, l) == m

MTextDelta(m, l) == MEnqueue(m, ContentChunk(l.s))

MThinkingDelta(m, l) == MEnqueue(m, ContentChunk(l.s))

\* MInputJsonDelta with = in the place of +=
MInputJsonDelta_Assign(m, l) ==
    IF Len(m.toolCalls) > 0
    THEN [m EXCEPT !.toolCalls[Len(m.toolCalls)].arguments = l.s]
    ELSE m

MInputJsonDelta(m, l) ==
    IF Len(m.toolCalls) > 0
    THEN [m EXCEPT !.toolCalls[Len(m.toolCalls)].arguments = @ \o l.s]
    ELSE m

\* the delta branches test the payload for truthiness: an empty string
\* matches none of them
MContentBlockDelta(m, l) ==
    IF l.kind = "text_delta" /\ l.s # <<>> THEN MTextDelta(m, l)
    ELSE IF l.kind = "thinking_delta" /\ l.s # <<>> THEN MThinkingDelta(m, l)
    ELSE IF l.kind = "input_json_delta" /\ l.s # <<>> THEN MInputJsonDelta(m, l)
    ELSE m

\* MCloseThinking that emits the closing delimiter and keeps the flag set
MCloseThinking_KeepFlag(m) ==
    IF m.inThinkingBlock
    THEN MEnqueue(m, ContentChunk(CloseTag))
    ELSE m

MCloseThinking(m) ==
    IF m.inThinkingBlock
    THEN MEnqueue([m EXCEPT !.inThinkingBlock = FALSE], ContentChunk(CloseTag))
    ELSE m

MFlushToolCall(m) ==
    IF Len(m.toolCalls) > 0
    THEN LET lastToolCall == m.toolCalls[Len(m.toolCalls)]
         IN MEnqueue(m, ToolChunk(lastToolCall.index, lastToolCall.id,
                                  lastToolCall.name, lastToolCall.arguments))
    ELSE m

MContentBlockStop(m, l) == MFlushToolCall(MCloseThinking(m))

MMessageDelta(m, l) ==
    LET finishReason == IF l.stop # "absent"
                        THEN convertStopReasonLocal(l.stop)
                        ELSE "stop"
    IN [MEnqueue(m, FinishChunk(finishReason)) EXCEPT !.sentFinishReason = TRUE]

MMessageStop(m, l) == [MEnqueue(m, DoneChunk) EXCEPT !.sentDone = TRUE]

\* the try block of one data line: JSON.parse and the dispatch on event.type
MEvent(m, l) ==
    CASE l.type = "message_start" -> MMessageStart(m, l)
      [] l.type = "content_block_start" -> MContentBlockStart(m, l)
      [] l.type = "content_block_delta" -> MContentBlockDelta(m, l)
      [] l.type = "content_block_stop" -> MContentBlockStop(m, l)
      [] l.type = "message_delta" -> MMessageDelta(m, l)
      [] l.type = "message_stop" -> MMessageStop(m, l)
      [] OTHER -> m

\* MBadLine without the catch: the exception leaves the loop
MBadLine_Abort(m, l) == [m EXCEPT !.pc = "closed", !.released = TRUE, !.closed = TRUE]

\* JSON.parse throws on a bad line; the catch logs and the loop goes on
MBadLine(m, l) == m

\* one iteration of `for (const line of lines)`
MLine(m, l) ==
    IF l.type = "skip" THEN m
    ELSE IF l.type = "bad" THEN MBadLine(m, l)
    ELSE MEvent(m, l)

\* what is left in buffer when read() reports done: only message_stop acts
MRemainder(m, buf) ==
    IF buf.type \in {"none", "skip", "bad"} THEN m
    ELSE IF buf.type = "message_stop" THEN [MEnqueue(m, DoneChunk) EXCEPT !.sentDone = TRUE]
    ELSE m

MEnsureFinish(m) ==
    IF ~m.sentFinishReason THEN MEnqueue(m, FinishChunk("stop")) ELSE m

MEnsureDone(m) ==
    IF ~m.sentDone THEN MEnqueue(m, DoneChunk) ELSE m

\* MFinally without reader.releaseLock()
MFinally_KeepLock(m) == [m EXCEPT !.pc = "closed", !.closed = TRUE]

\* finally { reader.releaseLock(); controller.close() }
MFinally(m) == [m EXCEPT !.pc = "closed", !.released = TRUE, !.closed = TRUE]

\* the loop has ended with done = true
MEndOfStream(m, buf) == MFinally(MEnsureDone(MEnsureFinish(MRemainder(m, buf))))

\* reader.read() rejects: there is no catch, only the finally block runs
MReadError(m) == MFinally(m)

\* claudeResponse.body is null: controller.close() and return
MNoBody(m) == [m EXCEPT !.pc = "closed", !.closed = TRUE]

(***************************************************************************)
(* convertStreamWithSDK: the SDK path.  Its accumulator is                 *)
(*   inThinkingBlock, toolCallIndex, currentToolCall (<<>> is null);       *)
(* out is what writer.write has been handed.  stopReason is the            *)
(* stop_reason of the message the SDK accumulates and finalMessage()       *)
(* returns: that of the last message_delta carrying one, null before.      *)
(***************************************************************************)
SInit ==
    [pc |-> "init", inThinkingBlock |-> FALSE, toolCallIndex |-> 0,
     currentToolCall |-> <<>>, stopReason |-> "null",
     out |-> <<>>, closed |-> FALSE]

\* await writer.write(encoder.encode(...))
SWrite(s, c) == [s EXCEPT !.out = Append(@, c)]

\* the initial role chunk, written before the first event is awaited
SStart(s) == [SWrite(s, RoleChunk) EXCEPT !.pc = "reading"]

SContentBlockStart(s, e) ==
    IF e.kind = "thinking"
    THEN SWrite([s EXCEPT !.inThinkingBlock = TRUE], ContentChunk(OpenTag))
    ELSE IF e.kind = "tool_use"
    THEN [s EXCEPT !.currentToolCall =
            <<[id |-> e.id, name |-> ToolName(e.id), arguments |-> <<>>]>>]
    ELSE s

SInputJsonDelta(s, e) ==
    [s EXCEPT !.currentToolCall[1].arguments = @ \o e.s]

SContentBlockDelta(s, e) ==
    IF e.kind = "text_delta" THEN SWrite(s, ContentChunk(e.s))
    ELSE IF e.kind = "thinking_delta" THEN SWrite(s, ContentChunk(e.s))
    ELSE IF e.kind = "input_json_delta" /\ s.currentToolCall # <<>>
    THEN SInputJsonDelta(s, e)
    ELSE s

SCloseThinking(s) ==
    IF s.inThinkingBlock
    THEN SWrite([s EXCEPT !.inThinkingBlock = FALSE], ContentChunk(CloseTag))
    ELSE s

SFlushToolCall(s) ==
    IF s.currentToolCall # <<>>
    THEN LET tc == s.currentToolCall[1]
         IN [SWrite(s, ToolChunk(s.toolCallIndex, tc.id, tc.name, tc.arguments))
               EXCEPT !.toolCallIndex = @ + 1, !.currentToolCall = <<>>]
    ELSE s

SContentBlockStop(s, e) == SFlushToolCall(SCloseThinking(s))

\* the message snapshot kept by the SDK stream (read by finalMessage)
SSnapshot(s, e) ==
    IF e.type = "message_delta" /\ e.stop # "absent"
    THEN [s EXCEPT !.stopReason = e.stop]
    ELSE s

\* the body of `for await (const event of stream)`
SEvent(s, e) ==
    LET t == SSnapshot(s, e)
    IN CASE e.type = "content_block_start" -> SContentBlockStart(t, e)
         [] e.type = "content_block_delta" -> SContentBlockDelta(t, e)
         [] e.type = "content_block_stop" -> SContentBlockStop(t, e)
         [] OTHER -> t

\* lines that carry no event never reach the iterator
SLine(s, l) == IF l.type \in {"none", "skip", "bad"} THEN s ELSE SEvent(s, l)

\* finally { await writer.close() }
SFinally(s) == [s EXCEPT !.pc = "closed", !.closed = TRUE]

\* catch (error): the sentinel alone is written
SCatch(s) == SFinally(SWrite(s, DoneChunk))

SFinishReason(s) ==
    LET r == convertStopReason(s.stopReason)
    IN IF r = "null" THEN "stop" ELSE r

\* after the loop: finalMessage(), the finish chunk, the sentinel
SComplete(s) == SFinally(SWrite(SWrite(s, FinishChunk(SFinishReason(s))), DoneChunk))

\* the iterator has ended; finalMessage() resolves or rejects
SEndOfStream(s, finalThrows) == IF finalThrows THEN SCatch(s) ELSE SComplete(s)

\* the iterator rejects
SReadError(s) == SCatch(s)

(***************************************************************************)
(* convertNormalResponse: the finish reason of the single-response body    *)
(***************************************************************************)
NoResponse == [stop_reason |-> "none", finish_reason |-> "none"]

convertNormalResponse(stop_reason) ==
    [stop_reason |-> stop_reason, finish_reason |-> convertStopReason(stop_reason)]

(***************************************************************************)
(* History of the upstream, kept beside the program state so that the      *)
(* properties can speak about what was fed in: the output lengths before   *)
(* the last step, the number of message_stop lines, how the upstream       *)
(* ended, the first line, and the content block that was opened last (its  *)
(* kind, whether it is still open, whether only deltas of its own kind     *)
(* followed its start, those deltas, the output lengths at its start).     *)
(***************************************************************************)
NoBlock ==
    [kind |-> "none", id |-> "", open |-> FALSE, pure |-> FALSE, incs |-> <<>>,
     mLen |-> 0, sLen |-> 0]

HInit ==
    [prevM |-> 0, prevS |-> 0, nStop |-> 0, nDelta |-> 0, end |-> "none",
     finalThrew |-> FALSE, first |-> "none", nested |-> TRUE, phase |-> "start",
     blk |-> NoBlock, closedKind |-> "none"]

DeltaOf(kind) ==
    CASE kind = "text" -> "text_delta"
      [] kind = "thinking" -> "thinking_delta"
      [] kind = "tool_use" -> "input_json_delta"
      [] OTHER -> "none"

HBlock(b, l, mLen, sLen) ==
    IF l.type = "content_block_start"
    THEN [kind |-> l.kind, id |-> l.id, open |-> TRUE, pure |-> TRUE, incs |-> <<>>,
          mLen |-> mLen, sLen |-> sLen]
    ELSE IF ~b.open THEN b
    ELSE IF l.type = "content_block_stop" THEN [b EXCEPT !.open = FALSE]
    ELSE IF l.type = "content_block_delta" /\ l.kind = DeltaOf(b.kind)
    THEN [b EXCEPT !.incs = Append(@, l.s)]
    ELSE [b EXCEPT !.pure = FALSE]

\* where the lines so far stand in the event grammar of the target protocol:
\* message_start, blocks (start, deltas of the block's kind, stop) one after
\* the other, message_delta, message_stop; "bad" once a line has left it
HPhase(p, b, l) ==
    IF l.type \in {"none", "skip"} THEN p
    ELSE IF p = "start"
    THEN (IF l.type = "message_start" THEN "body" ELSE "bad")
    ELSE IF p = "body"
    THEN CASE l.type = "content_block_start" -> IF b.open THEN "bad" ELSE "body"
           [] l.type = "content_block_delta" ->
                IF b.open /\ l.kind = DeltaOf(b.kind) THEN "body" ELSE "bad"
           [] l.type = "content_block_stop" -> IF b.open THEN "body" ELSE "bad"
           [] l.type = "message_delta" -> IF b.open THEN "bad" ELSE "delta"
           [] l.type = "ping" -> "body"
           [] OTHER -> "bad"
    ELSE IF p = "delta"
    THEN CASE l.type = "message_stop" -> "stopped"
           [] l.type = "ping" -> "delta"
           [] OTHER -> "bad"
    ELSE "bad"

HLine(h, l, mLen, sLen) ==
    [h EXCEPT !.prevM = mLen, !.prevS = sLen,
              !.nStop = IF l.type = "message_stop" THEN @ + 1 ELSE @,
              !.nDelta = IF l.type = "message_delta" THEN @ + 1 ELSE @,
              !.nested = @ /\ ~(l.type = "content_block_start" /\ h.blk.open)
                           /\ ~(l.type = "content_block_stop" /\ ~h.blk.open),
              !.first = IF @ = "none" /\ l.type # "none" THEN l.type ELSE @,
              !.phase = HPhase(@, h.blk, l),
              !.blk = HBlock(@, l, mLen, sLen),
              !.closedKind = IF l.type = "content_block_stop" /\ h.blk.open
                             THEN h.blk.kind ELSE "none"]

(***************************************************************************)
(* fetchWithRetry (src/src/index.ts).  One attempt ends in a response      *)
(* with a status or in an exception; both carry the number of the attempt  *)
(* that produced them, so that "the last one" can be told from the others. *)
(* The record rt holds the locals attempt, lastError, lastResponse, the    *)
(* position in the loop (pc), what the call returned or threw, and beside  *)
(* them what the environment has seen: the number of fetch calls, the      *)
(* milliseconds slept, the outcome of the last attempt, the last transient *)
(* response and the last exception received, and how many responses of     *)
(* each sort there were.                                                   *)
(***************************************************************************)
RETRY_STATUS_CODES == {502, 503, 504}
MAX_RETRIES == 10
RETRY_DELAY_MS == 1000

\* the statuses an attempt may answer with, and the exceptions it may raise
Statuses == {200, 400, 500, 502, 503, 504}
Exceptions == {"ECONNRESET", "ETIMEDOUT"}

Null == [kind |-> "null", status |-> 0, msg |-> "", at |-> 0]
ResponseOf(status, at) == [kind |-> "response", status |-> status, msg |-> "", at |-> at]
ErrorOf(msg, at) == [kind |-> "error", status |-> 0, msg |-> msg, at |-> at]

RInit ==
    [pc |-> "idle", attempt |-> 0, lastError |-> Null, lastResponse |-> Null,
     returned |-> Null, thrown |-> Null,
     calls |-> 0, slept |-> 0, last |-> Null, lastTransient |-> Null,
     lastException |-> Null, nStatus |-> 0, nFinal |-> 0]

\* for (let attempt = 1; ...
RCall(r) == [r EXCEPT !.pc = "fetch", !.attempt = 1]

\* RShouldRetry that takes 500 for a transient status too
RShouldRetry_With500(r, response) ==
    response.status \in RETRY_STATUS_CODES \cup {500} /\ r.attempt < MAX_RETRIES

\* RETRY_STATUS_CODES.includes(response.status) && attempt < MAX_RETRIES
RShouldRetry(r, response) ==
    response.status \in RETRY_STATUS_CODES /\ r.attempt < MAX_RETRIES

\* RExhausted that looks at lastError first
RExhausted_ErrorFirst(r) ==
    IF r.lastError # Null
    THEN [r EXCEPT !.pc = "thrown", !.thrown = r.lastError]
    ELSE [r EXCEPT !.pc = "returned", !.returned = r.lastResponse]

\* after the loop: the last response kept, else the last error
RExhausted(r) ==
    IF r.lastResponse # Null
    THEN [r EXCEPT !.pc = "returned", !.returned = r.lastResponse]
    ELSE [r EXCEPT !.pc = "thrown", !.thrown = r.lastError]

\* attempt++ and the loop condition
RNextAttempt(r) ==
    IF r.attempt + 1 <= MAX_RETRIES
    THEN [r EXCEPT !.pc = "fetch", !.attempt = @ + 1]
    ELSE RExhausted([r EXCEPT !.attempt = @ + 1])

\* what the environment has seen of one fetch call
RSeen(r, outcome) ==
    [r EXCEPT !.calls = @ + 1, !.last = outcome,
              !.nStatus = IF outcome.kind = "response" THEN @ + 1 ELSE @,
              !.nFinal = IF outcome.kind = "response"
                            /\ outcome.status \notin {502, 503, 504}
                         THEN @ + 1 ELSE @,
              !.lastTransient = IF outcome.kind = "response"
                                   /\ outcome.status \in {502, 503, 504}
                                THEN outcome ELSE @,
              !.lastException = IF outcome.kind = "error" THEN outcome ELSE @]

\* the try block: fetch answered with a response
RResponse(r, response) ==
    IF RShouldRetry(r, response)
    THEN [r EXCEPT !.lastResponse = response, !.pc = "sleep"]
    ELSE [r EXCEPT !.pc = "returned", !.returned = response]

\* RCatchSleeps without the test of attempt
RCatchSleeps_Always(r) == TRUE

\* does the catch block sleep
RCatchSleeps(r) == r.attempt < MAX_RETRIES

\* the catch block: fetch threw
RException(r, error) ==
    LET r1 == [r EXCEPT !.lastError = error]
    IN IF RCatchSleeps(r1) THEN [r1 EXCEPT !.pc = "sleep"] ELSE RNextAttempt(r1)

\* await sleep(RETRY_DELAY_MS), then the next iteration
RSleep(r) == RNextAttempt([r EXCEPT !.slept = @ + RETRY_DELAY_MS])

(***************************************************************************)
(* The model mapping table (src/src/claude.ts).  A table is a JavaScript   *)
(* object with string keys: here a function on AllKeys whose value is      *)
(* Undefined where the object has no own property.  Reading a property     *)
(* that is not an own property goes on to Object.prototype, the prototype  *)
(* of every object literal, and a value is tested with JavaScript's        *)
(* truthiness.                                                             *)
(***************************************************************************)
Undefined == "<undefined>"
Function == "<function>"

DefaultKeys ==
    {"tinyy-model", "bigger-model", "gpt-4", "gpt-4o", "gpt-4-turbo", "gpt-3.5-turbo"}

\* the keys a table is looked at with: the default ones, one the defaults
\* lack, one that names a property of Object.prototype, one never set
AllKeys == DefaultKeys \cup {"custom", "constructor", "other-model"}

DEFAULT_MODEL_MAPPING ==
    [k \in AllKeys |->
        CASE k \in {"tinyy-model", "gpt-4o", "gpt-4-turbo"} -> "claude-sonnet-4-5-20250929"
          [] k \in {"bigger-model", "gpt-4"} -> "claude-opus-4-5-20251101"
          [] k = "gpt-3.5-turbo" -> "claude-haiku-4-5-20251001"
          [] OTHER -> Undefined]

THINKING_MODELS == {"tinyy-model", "bigger-model"}

\* the partial tables handed to setModelMapping
PartialKeys == {"tinyy-model", "custom", "constructor"}
PartialValues == {Undefined, "claude-x", ""}
Partials ==
    {[k \in AllKeys |-> IF k \in PartialKeys THEN p[k] ELSE Undefined] :
        p \in [PartialKeys -> PartialValues]}
EmptyTable == [k \in AllKeys |-> Undefined]

\* obj.hasOwnProperty(k)
HasOwn(obj, k) == k \in DOMAIN obj /\ obj[k] # Undefined

\* { ...a, ...b }
Spread(a, b) == [k \in AllKeys |-> IF HasOwn(b, k) THEN b[k] ELSE a[k]]

ObjectPrototype == [k \in AllKeys |-> IF k = "constructor" THEN Function ELSE Undefined]

\* obj[k]
Get(obj, k) ==
    IF HasOwn(obj, k) THEN obj[k]
    ELSE IF k \in DOMAIN ObjectPrototype THEN ObjectPrototype[k]
    ELSE Undefined

\* if (v)
Truthy(v) == v \notin {Undefined, ""}

\* setModelMapping that assigns the partial table alone
setModelMapping_PartialOnly(mapping) == mapping

\* setModelMapping with the two spreads exchanged
setModelMapping_DefaultsWin(mapping) == Spread(mapping, DEFAULT_MODEL_MAPPING)

\* the value setModelMapping assigns to currentModelMapping
setModelMapping(mapping) == Spread(DEFAULT_MODEL_MAPPING, mapping)

mapModelName(currentModelMapping, inputModel) ==
    IF Truthy(Get(currentModelMapping, inputModel))
    THEN Get(currentModelMapping, inputModel)
    ELSE inputModel

\* currentModelMapping, and beside it the partial of the last
\* setModelMapping call, the table that call replaced, the number of such
\* calls (counted up to 2), and the last call of mapModelName on this table
\* with its result
MpInit ==
    [currentModelMapping |-> Spread(DEFAULT_MODEL_MAPPING, EmptyTable),
     partial |-> EmptyTable, before |-> EmptyTable, sets |-> 0,
     inputModel |-> "", result |-> ""]

(***************************************************************************)
(* convertMessages (src/src/claude.ts).  A string is the sequence of its   *)
(* pieces, so that concatenation is \o and the empty string is <<>>.       *)
(* A source message has a content that is a string, an array of parts or   *)
(* null, tool_calls and a tool_call_id.  A converted message has a content *)
(* that is a string (text) or an array (blocks).  Every converted block    *)
(* records in "from" the position of the source message it was made of     *)
(* (0 for the block made of the system prompt).                            *)
(***************************************************************************)
\* Bound on the number of messages of one request.
MaxMsgs == 3

\* a content part; url is image_url.url as a sequence of tokens: the prefix
\* "data:", the separator ";", the marker "base64,", a line feed, and pieces
\* of text without any of them; NoImageUrl is a part without image_url
Part(type, text, url) == [type |-> type, text |-> text, url |-> url]

NoImageUrl == <<Undefined>>
ToolCall(id, arguments) == [id |-> id, name |-> ToolName(id), arguments |-> arguments]

Message(role, ckind, text, parts, tool_calls, tool_call_id) ==
    [role |-> role, ckind |-> ckind, text |-> text, parts |-> parts,
     tool_calls |-> tool_calls, tool_call_id |-> tool_call_id]

SystemMessages ==
    {Message("system", "string", txt, <<>>, <<>>, "") : txt \in {<<"S1">>, <<"S2">>, <<>>}}
    \cup {Message("system", "array", <<>>, <<Part("text", <<"S3">>, <<>>)>>, <<>>, "")}

UserMessages ==
    {Message("user", "string", <<"hi">>, <<>>, <<>>, ""),
     Message("user", "array", <<>>,
             <<Part("text", <<"see">>, <<>>),
               Part("image_url", <<>>, <<"data:", "image/png", ";", "base64,", "AA">>)>>,
             <<>>, "")}

\* arguments is "{}" (JSON.parse gives an object) or "{" (JSON.parse throws)
AssistantMessages ==
    {Message("assistant", "string", <<"ok">>, <<>>, <<>>, ""),
     Message("assistant", "null", <<>>, <<>>, <<>>, ""),
     Message("assistant", "null", <<>>, <<>>, <<ToolCall("t1", "{}")>>, ""),
     Message("assistant", "null", <<>>, <<>>, <<ToolCall("t1", "{")>>, "")}

ToolMessages ==
    {Message("tool", "string", <<"r">>, <<>>, <<>>, id) : id \in ToolIds}

SourceMessages == SystemMessages \cup UserMessages \cup AssistantMessages \cup ToolMessages

Block(type, text, id, from) ==
    [type |-> type, text |-> text, id |-> id, from |-> from,
     media_type |-> <<>>, data |-> <<>>]

\* { type: 'image', source: { type: 'base64', media_type, data } }
ImageBlock(media_type, data, from) ==
    [Block("image", <<>>, "", from) EXCEPT !.media_type = media_type, !.data = data]

ClaudeMessage(role, ckind, text, blocks) ==
    [role |-> role, ckind |-> ckind, text |-> text, blocks |-> blocks]

\* strs.join(sep)
RECURSIVE Join(_, _)
Join(strs, sep) ==
    IF Len(strs) = 0 THEN <<>>
    ELSE IF Len(strs) = 1 THEN strs[1]
    ELSE strs[1] \o sep \o Join(Tail(strs), sep)

\* seq.map(f) for the part and block conversions below
RECURSIVE TextsOf(_)
TextsOf(parts) ==
    IF Len(parts) = 0 THEN <<>>
    ELSE (IF parts[1].type = "text" THEN <<parts[1].text>> ELSE <<>>) \o TextsOf(Tail(parts))

\* the local accumulators claudeMessages and systemMessages; threw records
\* an exception leaving the loop
ConvInit == [claudeMessages |-> <<>>, systemMessages |-> <<>>, threw |-> FALSE]

\* role system: only a string content is collected
ConvSystem(acc, message) ==
    IF message.ckind = "string"
    THEN [acc EXCEPT !.systemMessages = Append(@, message.text)]
    ELSE acc

\* the content of a tool message as one string
ToolContent(message) ==
    IF message.ckind = "string" THEN message.text
    ELSE IF message.ckind = "array" THEN Join(TextsOf(message.parts), <<"\n">>)
    ELSE <<>>

HasToolResultBlock(cm) ==
    cm.ckind = "array" /\ \E b \in 1..Len(cm.blocks) : cm.blocks[b].type = "tool_result"

\* ToolMerges that never finds a message to merge into
ToolMerges_Never(claudeMessages) == FALSE

\* is the last converted message a user message that holds a tool_result
ToolMerges(claudeMessages) ==
    /\ Len(claudeMessages) > 0
    /\ claudeMessages[Len(claudeMessages)].role = "user"
    /\ HasToolResultBlock(claudeMessages[Len(claudeMessages)])

\* role tool
ConvTool(acc, message, i) ==
    LET toolResult == Block("tool_result", ToolContent(message), message.tool_call_id, i)
    IN IF ToolMerges(acc.claudeMessages)
       THEN [acc EXCEPT !.claudeMessages[Len(acc.claudeMessages)].blocks = Append(@, toolResult)]
       ELSE [acc EXCEPT !.claudeMessages =
                Append(@, ClaudeMessage("user", "array", <<>>, <<toolResult>>))]

\* one part of an array content: a text part, a data: image that matches
\* the pattern, one that does not, a remote image, anything else
\* imageUrl.startsWith('data:')
StartsWithData(imageUrl) == Len(imageUrl) > 0 /\ imageUrl[1] = "data:"

\* the position of the first ";" of imageUrl, 0 without one
FirstSemicolon(imageUrl) ==
    IF \E k \in DOMAIN imageUrl : imageUrl[k] = ";"
    THEN CHOOSE k \in DOMAIN imageUrl :
            /\ imageUrl[k] = ";"
            /\ \A j \in 1..(k - 1) : imageUrl[j] # ";"
    ELSE 0

\* imageUrl.match(/^data:([^;]+);base64,(.+)$/): [^;]+ takes everything up
\* to the first ";", which "base64," has to follow at once; (.+)$ is the
\* rest, not empty and without a line terminator
MatchDataUrl(imageUrl) ==
    LET k == FirstSemicolon(imageUrl)
    IN IF /\ StartsWithData(imageUrl)
          /\ k > 2
          /\ Len(imageUrl) >= k + 2
          /\ imageUrl[k + 1] = "base64,"
          /\ \A j \in (k + 2)..Len(imageUrl) : imageUrl[j] # "\n"
       THEN [matched |-> TRUE, media_type |-> SubSeq(imageUrl, 2, k - 1),
             data |-> SubSeq(imageUrl, k + 2, Len(imageUrl))]
       ELSE [matched |-> FALSE, media_type |-> <<>>, data |-> <<>>]

\* part.type === 'image_url' && part.image_url
ImageBlocks(part, i) ==
    IF part.url = NoImageUrl THEN <<>>
    ELSE LET imageUrl == part.url
             matches == MatchDataUrl(imageUrl)
         IN IF StartsWithData(imageUrl)
            THEN IF matches.matched
                 THEN <<ImageBlock(matches.media_type, matches.data, i)>>
                 ELSE <<>>
            ELSE <<Block("text", <<"[Image URL: ">> \o imageUrl \o <<"]">>, "", i)>>

PartBlocks(part, i) ==
    IF part.type = "text" THEN <<Block("text", part.text, "", i)>>
    ELSE IF part.type = "image_url" THEN ImageBlocks(part, i)
    ELSE <<>>

RECURSIVE PartsBlocks(_, _)
PartsBlocks(parts, i) ==
    IF Len(parts) = 0 THEN <<>>
    ELSE PartBlocks(parts[1], i) \o PartsBlocks(Tail(parts), i)

\* if (message.content) { ... }
ContentBlocks(message, i) ==
    IF message.ckind = "string" /\ message.text # <<>>
    THEN <<Block("text", message.text, "", i)>>
    ELSE IF message.ckind = "array" THEN PartsBlocks(message.parts, i)
    ELSE <<>>

\* does JSON.parse throw on one of the arguments strings
ParseThrows(tool_calls) ==
    \E c \in 1..Len(tool_calls) : tool_calls[c].arguments # "{}"

RECURSIVE ToolUseBlocks(_, _)
ToolUseBlocks(tool_calls, i) ==
    IF Len(tool_calls) = 0 THEN <<>>
    ELSE <<Block("tool_use", <<tool_calls[1].name>>, tool_calls[1].id, i)>>
         \o ToolUseBlocks(Tail(tool_calls), i)

\* roles user and assistant
ConvOther(acc, message, i) ==
    IF ParseThrows(message.tool_calls) THEN [acc EXCEPT !.threw = TRUE]
    ELSE
    LET content == ContentBlocks(message, i) \o ToolUseBlocks(message.tool_calls, i)
        role == IF message.role = "assistant" THEN "assistant" ELSE "user"
    IN IF Len(content) = 0 THEN acc
       ELSE IF Len(content) = 1 /\ content[1].type = "text"
       THEN [acc EXCEPT !.claudeMessages = Append(@, ClaudeMessage(role, "string", content[1].text, <<>>))]
       ELSE [acc EXCEPT !.claudeMessages = Append(@, ClaudeMessage(role, "array", <<>>, content))]

\* the body of the loop over openaiMessages
ConvStep(acc, message, i) ==
    IF message.role = "system" THEN ConvSystem(acc, message)
    ELSE IF message.role = "tool" THEN ConvTool(acc, message, i)
    ELSE ConvOther(acc, message, i)

\* the loop, from message i on
RECURSIVE ConvLoop(_, _, _)
ConvLoop(acc, openaiMessages, i) ==
    IF acc.threw \/ i > Len(openaiMessages) THEN acc
    ELSE ConvLoop(ConvStep(acc, openaiMessages[i], i), openaiMessages, i + 1)

\* claudeMessages.findIndex(m => m.role === 'user'), 0 for -1
RECURSIVE FindUserFrom(_, _)
FindUserFrom(claudeMessages, i) ==
    IF i > Len(claudeMessages) THEN 0
    ELSE IF claudeMessages[i].role = "user" THEN i
    ELSE FindUserFrom(claudeMessages, i + 1)

\* FirstUserIndex that falls back to the first message
FirstUserIndex_OrFirst(claudeMessages) ==
    IF FindUserFrom(claudeMessages, 1) = 0 /\ Len(claudeMessages) > 0 THEN 1
    ELSE FindUserFrom(claudeMessages, 1)

FirstUserIndex(claudeMessages) == FindUserFrom(claudeMessages, 1)

\* systemMessages.join('\n\n'); of no system message it is undefined, which
\* the test "if (systemPrompt && ...)" treats as the empty string
SystemPrompt(systemMessages) == Join(systemMessages, <<"\n\n">>)

Preface(systemPrompt) ==
    <<"[System Instructions]", "\n">> \o systemPrompt \o <<"\n\n", "[User Message]">>

\* the system prompt put into the first user message
Splice(claudeMessages, systemPrompt) ==
    LET firstUserIndex == FirstUserIndex(claudeMessages)
    IN IF systemPrompt # <<>> /\ Len(claudeMessages) > 0 /\ firstUserIndex # 0
       THEN IF claudeMessages[firstUserIndex].ckind = "string"
            THEN [claudeMessages EXCEPT ![firstUserIndex].text =
                    Preface(systemPrompt) \o <<"\n">> \o @]
            ELSE [claudeMessages EXCEPT ![firstUserIndex].blocks =
                    <<Block("text", Preface(systemPrompt), "", 0)>> \o @]
       ELSE claudeMessages

\* what convertMessages returns: it throws, or gives messages and system
convertMessages(openaiMessages) ==
    LET acc == ConvLoop(ConvInit, openaiMessages, 1)
    IN IF acc.threw
       THEN [threw |-> TRUE, messages |-> <<>>, system |-> Undefined]
       ELSE [threw |-> FALSE,
             messages |-> Splice(acc.claudeMessages, SystemPrompt(acc.systemMessages)),
             system |-> Undefined]

(***************************************************************************)
(* The two request builders of src/src/claude.ts and the handler           *)
(* handleOpenAIToClaude of src/src/index.ts.  A request body has a model   *)
(* (Undefined when the field is absent), a stream flag and messages: an    *)
(* array, no field at all ("absent"), or a value that is no array          *)
(* ("wrong": a string, a number, an object).                               *)
(***************************************************************************)
RequestModels == {"tinyy-model", "gpt-4", Undefined}
MessagesShapes == {"array", "absent", "wrong"}

\* a number field of a body: absent, or a number
NoNumber == [present |-> FALSE, value |-> 0]
Number(value) == [present |-> TRUE, value |-> value]

\* the max_tokens and temperature fields a request may come with
MaxTokens == {NoNumber} \cup {Number(v) : v \in {-1, 0, 1000, 10000, 16000, 20000}}
Temperatures == {NoNumber} \cup {Number(v) : v \in {0, 1}}

\* a body with its max_tokens and temperature fields
BodyWith(model, stream, shape, messages, max_tokens, temperature) ==
    [model |-> model, stream |-> stream, shape |-> shape,
     messages |-> IF shape = "array" THEN messages ELSE <<>>,
     max_tokens |-> max_tokens, temperature |-> temperature]

\* a body without them
Body(model, stream, shape, messages) ==
    BodyWith(model, stream, shape, messages, NoNumber, NoNumber)

\* the request for the upstream: not built, or built with these fields
\* thinking: { type: 'enabled', budget_tokens: 10000 }
budget_tokens == 10000

NoTarget ==
    [built |-> FALSE, model |-> Undefined, thinking |-> FALSE, messages |-> <<>>,
     max_tokens |-> 0, stream |-> FALSE, temperature |-> NoNumber,
     budget_tokens |-> 0]
Target(model, thinking, messages) ==
    [built |-> TRUE, model |-> model, thinking |-> thinking, messages |-> messages,
     max_tokens |-> 0, stream |-> FALSE, temperature |-> NoNumber,
     budget_tokens |-> IF thinking THEN budget_tokens ELSE 0]

\* v || d for a number field
OrDefault(field, d) == IF field.present /\ field.value # 0 THEN field.value ELSE d

\* Math.max(a, b)
Max(a, b) == IF a >= b THEN a ELSE b

\* TargetMaxTokens that takes the request's max_tokens for a reasoning alias
\* as it does for the others
TargetMaxTokens_NoFloor(body, enableThinking) ==
    IF enableThinking
    THEN OrDefault(body.max_tokens, 16000)
    ELSE OrDefault(body.max_tokens, 4096)

\* enableThinking ? Math.max(max_tokens || 16000, 16000) : max_tokens || 4096
TargetMaxTokens(body, enableThinking) ==
    IF enableThinking
    THEN Max(OrDefault(body.max_tokens, 16000), 16000)
    ELSE OrDefault(body.max_tokens, 4096)

\* TargetTemperature that copies the field of the body
TargetTemperature_Forwarded(body) == body.temperature

\* the object literals claudeRequest and claudeParams name no temperature
TargetTemperature(body) == NoNumber

\* this.convertMessages(openaiRequest.messages): for ... of throws a
\* TypeError on undefined and on any value that cannot be iterated
ConvertBodyMessages(body) ==
    IF body.shape = "array" THEN convertMessages(body.messages)
    ELSE [threw |-> TRUE, messages |-> <<>>, system |-> Undefined]

\* messages.some(m => Array.isArray(m.content) && m.content.some(c => c.type === 'tool_result'))
HasToolResult(messages) ==
    \E i \in 1..Len(messages) : HasToolResultBlock(messages[i])

\* THINKING_MODELS.has(openaiRequest.model)
EnableThinking(body) == body.model \in THINKING_MODELS

\* convertToProviderRequest: the request it returns, or threw
convertToProviderRequest(body, currentModelMapping) ==
    LET conv == ConvertBodyMessages(body)
    IN IF conv.threw THEN [threw |-> TRUE, target |-> NoTarget]
       ELSE [threw |-> FALSE,
             target |->
                [Target(mapModelName(currentModelMapping, body.model),
                        EnableThinking(body), conv.messages)
                   EXCEPT !.max_tokens = TargetMaxTokens(body, EnableThinking(body)),
                          !.stream = body.stream,
                          !.temperature = TargetTemperature(body)]]

\* convertStreamWithSDK up to the parameters handed to the SDK, or threw
convertStreamWithSDK(body, currentModelMapping) ==
    LET conv == ConvertBodyMessages(body)
    IN IF conv.threw THEN [threw |-> TRUE, target |-> NoTarget]
       ELSE [threw |-> FALSE,
             target |->
                [Target(mapModelName(currentModelMapping, body.model),
                        EnableThinking(body) /\ ~HasToolResult(conv.messages),
                        conv.messages)
                   EXCEPT !.max_tokens = TargetMaxTokens(body, EnableThinking(body)),
                          !.stream = TRUE,
                          !.temperature = TargetTemperature(body)]]

\* what fetchWithRetry gives the handler: a response with a status, or an
\* exception
RetryResults == {200, 400, 503, 0}
RetryThrew == 0

\* the body of an upstream response as bytes, and what response.text()
\* makes of it: a byte sequence that is no UTF-8 is replaced by U+FFFD
UpstreamBodies == {<<"E">>, <<>>, <<"E", "\\xFF">>}
ResponseText(bytes) ==
    [i \in 1..Len(bytes) |-> IF bytes[i] = "\\xFF" THEN "\\uFFFD" ELSE bytes[i]]

\* the answer of a handler: its status and the type of its error body
\* ("ok" for a body that is no error), the request built for the upstream,
\* whether the upstream was called at all, whether it was called through
\* fetchWithRetry, whether a response converter was applied to the
\* upstream response, and the details field of the error body
Reply(status, type, target, outbound) ==
    [status |-> status, type |-> type, target |-> target, outbound |-> outbound,
     viaRetry |-> FALSE, converted |-> FALSE, details |-> <<>>]
NoReply == Reply(0, "none", NoTarget, FALSE)

\* requestBody.messages?.some(...): a TypeError when messages is neither
\* null, undefined nor an array
HasImagesThrows(body) == body.shape = "wrong"

\* the stream branch
HandleStream(body, currentModelMapping) ==
    LET r == convertStreamWithSDK(body, currentModelMapping)
    IN IF r.threw THEN Reply(500, "provider_error", NoTarget, FALSE)
       ELSE Reply(200, "ok", r.target, TRUE)

\* the non-stream branch; upstream is what fetchWithRetry ends with
\* UpstreamErrorReply that answers every upstream error with a 502
UpstreamErrorReply_BadGateway(status, upstreamBody, target) ==
    [Reply(502, "provider_error", target, TRUE)
       EXCEPT !.viaRetry = TRUE, !.details = ResponseText(upstreamBody)]

\* if (!response.ok): the status of the upstream and its body as details
UpstreamErrorReply(status, upstreamBody, target) ==
    [Reply(status, "provider_error", target, TRUE)
       EXCEPT !.viaRetry = TRUE, !.details = ResponseText(upstreamBody)]

HandleNormal(body, currentModelMapping, upstream, upstreamBody) ==
    LET r == convertToProviderRequest(body, currentModelMapping)
    IN IF r.threw THEN Reply(500, "conversion_error", NoTarget, FALSE)
       ELSE IF upstream = RetryThrew
       THEN [Reply(500, "conversion_error", r.target, TRUE) EXCEPT !.viaRetry = TRUE]
       ELSE IF upstream \notin 200..299
       THEN UpstreamErrorReply(upstream, upstreamBody, r.target)
       ELSE [Reply(200, "ok", r.target, TRUE) EXCEPT !.viaRetry = TRUE, !.converted = TRUE]

handleOpenAIToClaude(body, claudeApiKey, currentModelMapping, upstream, upstreamBody) ==
    IF ~claudeApiKey THEN Reply(500, "config_error", NoTarget, FALSE)
    ELSE IF HasImagesThrows(body) THEN Reply(500, "conversion_error", NoTarget, FALSE)
    ELSE IF body.stream THEN HandleStream(body, currentModelMapping)
    ELSE HandleNormal(body, currentModelMapping, upstream, upstreamBody)

DEFAULT_OPENAI_MODEL_MAPPING ==
    [k \in AllKeys |->
        CASE k \in {"tinyy-model", "gpt-4", "gpt-4o", "gpt-4-turbo"} -> "gpt-5.2"
          [] k = "bigger-model" -> "gpt-5.2-pro"
          [] k = "gpt-3.5-turbo" -> "gpt-5-mini"
          [] OTHER -> Undefined]

\* mapOpenAIModelName on the table as it is before any setOpenAIModelMapping
mapOpenAIModelName(inputModel) == mapModelName(DEFAULT_OPENAI_MODEL_MAPPING, inputModel)

\* the body forwarded by handleOpenAIToOpenAI: the body of the request with
\* its model replaced
ForwardTarget(body) ==
    [Target(mapOpenAIModelName(body.model), FALSE, <<>>)
       EXCEPT !.max_tokens = body.max_tokens.value,
              !.stream = body.stream,
              !.temperature = body.temperature]

\* handleOpenAIToOpenAI: stream or not, the request goes to fetchWithRetry
\* and the response comes back as it is
handleOpenAIToOpenAI(body, openaiApiKey, upstream, upstreamBody) ==
    IF ~openaiApiKey THEN Reply(500, "config_error", NoTarget, FALSE)
    ELSE IF HasImagesThrows(body) THEN Reply(500, "forward_error", NoTarget, FALSE)
    ELSE IF upstream = RetryThrew
    THEN [Reply(500, "forward_error", ForwardTarget(body), TRUE) EXCEPT !.viaRetry = TRUE]
    ELSE IF upstream \notin 200..299
    THEN UpstreamErrorReply(upstream, upstreamBody, ForwardTarget(body))
    ELSE [Reply(upstream, "ok", ForwardTarget(body), TRUE) EXCEPT !.viaRetry = TRUE]

\* the route of the chat-completions endpoint
ProxyTypes == {"claude", "openai"}

chatCompletions(proxyType, body, apiKey, currentModelMapping, upstream, upstreamBody) ==
    IF proxyType = "openai"
    THEN handleOpenAIToOpenAI(body, apiKey, upstream, upstreamBody)
    ELSE handleOpenAIToClaude(body, apiKey, currentModelMapping, upstream, upstreamBody)

\* the request being received (pc "idle", then "building" while its
\* messages are drawn, then "done"), what convertMessages made of its
\* messages, and the reply of the handler
RqInit ==
    [pc |-> "idle", proxyType |-> "claude",
     body |-> Body(Undefined, FALSE, "absent", <<>>),
     conv |-> [threw |-> FALSE, messages |-> <<>>, system |-> Undefined],
     upstream |-> [status |-> 0, body |-> <<>>],
     reply |-> NoReply]

(***************************************************************************)
(* convertNormalResponse: the whole body.  claudeData has the content      *)
(* blocks, the usage (NoUsage when the field is absent) and the            *)
(* stop_reason; the OpenAI body has the message content (null or a         *)
(* string), the tool calls, the usage and the finish reason.               *)
(***************************************************************************)
\* Bound on the number of content blocks of one response.
MaxBlocks == 3

TokenCounts == {0, 7, 11}
NoUsage == [present |-> FALSE, a |-> 0, b |-> 0, total |-> 0]
ClaudeUsage(input_tokens, output_tokens) ==
    [present |-> TRUE, a |-> input_tokens, b |-> output_tokens, total |-> 0]
OpenAIUsage(prompt_tokens, completion_tokens, total_tokens) ==
    [present |-> TRUE, a |-> prompt_tokens, b |-> completion_tokens, total |-> total_tokens]

\* the content blocks of a response: text, thinking (both may be empty)
\* and tool_use
ContentBlock(type, text, id) == [type |-> type, text |-> text, id |-> id]
ResponseBlocks ==
    {ContentBlock("text", txt, "") : txt \in {<<"a">>, <<"b">>, <<>>}}
    \cup {ContentBlock("thinking", txt, "") : txt \in {<<"t">>, <<>>}}
    \cup {ContentBlock("tool_use", <<>>, "t1")}

ClaudeData(content, usage, stop_reason) ==
    [content |-> content, usage |-> usage, stop_reason |-> stop_reason]

\* message.content: null, or a string
NullContent == [null |-> TRUE, text |-> <<>>]
StringContent(text) == [null |-> FALSE, text |-> text]

\* NormalUsage that leaves the output tokens out of the total
NormalUsage_NoSum(usage) ==
    IF usage.present THEN OpenAIUsage(usage.a, usage.b, usage.a) ELSE NoUsage

\* if (claudeData.usage) { openaiResponse.usage = ... }
NormalUsage(usage) ==
    IF usage.present THEN OpenAIUsage(usage.a, usage.b, usage.a + usage.b) ELSE NoUsage

\* textContent / thinkingContent after the loop over claudeData.content
RECURSIVE CollectText(_, _)
CollectText(content, type) ==
    IF Len(content) = 0 THEN <<>>
    ELSE (IF content[1].type = type THEN content[1].text ELSE <<>>)
         \o CollectText(Tail(content), type)

\* toolCalls after the loop
RECURSIVE CollectToolCalls(_)
CollectToolCalls(content) ==
    IF Len(content) = 0 THEN <<>>
    ELSE (IF content[1].type = "tool_use"
          THEN <<[id |-> content[1].id, name |-> ToolName(content[1].id)]>> ELSE <<>>)
         \o CollectToolCalls(Tail(content))

\* `<thinking>\n${thinkingContent}\n</thinking>\n\n`
WrapThinking(thinkingContent) ==
    <<"<thinking>", "\n">> \o thinkingContent \o <<"\n", "</thinking>", "\n\n">>

\* NormalContent that puts the thinking after the text
NormalContent_ThinkingLast(content) ==
    LET textContent == CollectText(content, "text")
        thinkingContent == CollectText(content, "thinking")
        full == IF thinkingContent # <<>>
                THEN textContent \o WrapThinking(thinkingContent)
                ELSE textContent
    IN IF full # <<>> THEN StringContent(full) ELSE NullContent

\* message.content of the converted body
NormalContent(content) ==
    LET textContent == CollectText(content, "text")
        thinkingContent == CollectText(content, "thinking")
        full == IF thinkingContent # <<>>
                THEN WrapThinking(thinkingContent) \o textContent
                ELSE textContent
    IN IF full # <<>> THEN StringContent(full) ELSE NullContent

\* the body convertNormalResponse answers with
convertNormalBody(claudeData) ==
    [content |-> NormalContent(claudeData.content),
     tool_calls |-> CollectToolCalls(claudeData.content),
     usage |-> NormalUsage(claudeData.usage),
     finish_reason |-> convertStopReason(claudeData.stop_reason)]

\* the upstream body being received (pc "idle", "building" while its
\* blocks are drawn, "done" once converted) and the converted body
NrInit ==
    [pc |-> "idle", claudeData |-> ClaudeData(<<>>, NoUsage, "absent"),
     out |-> [content |-> NullContent, tool_calls |-> <<>>, usage |-> NoUsage,
              finish_reason |-> "none"]]

(***************************************************************************)
(* Requests in flight.  A worker runs one piece of code at a time and      *)
(* passes from one request to another only at an await, so a step of a     *)
(* request is the code between two awaits.  Every request starts with      *)
(* initConfig (src/src/index.ts), which loads the saved mapping from the   *)
(* KV store and hands it to setModelMapping; a chat request then resolves  *)
(* its model, a save request sets the mapping it was sent and stores it.   *)
(***************************************************************************)
\* Bound on the number of save requests.
MaxSaves == 2

ChatRequests == {"chat1", "chat2"}
Requests == ChatRequests \cup {"save"}

PartialOf(key, value) == [k \in AllKeys |-> IF k = key THEN value ELSE Undefined]

\* the mappings a save request may be sent
SavedPartials ==
    {PartialOf("custom", "claude-x"), PartialOf("tinyy-model", "claude-x"),
     PartialOf("tinyy-model", "claude-y")}

\* the aliases the chat requests ask for
ChatAliases == {"tinyy-model", "custom"}

\* what CONFIG_KV.get(KV_MODEL_MAPPING) gives: null, or a stored mapping
NoSaved == [present |-> FALSE, table |-> EmptyTable]
Saved(table) == [present |-> TRUE, table |-> table]

\* one request: where it is, what initConfig loaded, the mapping a save
\* request was sent, and for a chat request the alias, the table
\* mapModelName read and its result
InFlight(pc, loaded, mapping, alias, saw, result) ==
    [pc |-> pc, loaded |-> loaded, mapping |-> mapping, alias |-> alias,
     saw |-> saw, result |-> result]
NotStarted == InFlight("idle", NoSaved, EmptyTable, "", EmptyTable, "")

\* the KV entry, the requests, the number of save requests so far, and the
\* partial tables handed to setModelMapping so far
CcInit ==
    [kv |-> NoSaved, req |-> [r \in Requests |-> NotStarted], saves |-> 0,
     handed |-> {}]

\* the record of the mapping table after setModelMapping(mapping)
MpSet(mpv, mapping) ==
    [mpv EXCEPT !.currentModelMapping = setModelMapping(mapping),
                !.partial = mapping,
                !.before = mpv.currentModelMapping,
                !.sets = IF @ < 2 THEN @ + 1 ELSE @,
                !.inputModel = "", !.result = ""]

(***************************************************************************)
(* The two stream entry points as tasks between the upstream and the       *)
(* client.  convertStreamResponse runs its read loop inside start() of a   *)
(* ReadableStream whose source has no pull() and no cancel();              *)
(* convertStreamWithSDK runs it in a background task that writes to the    *)
(* writable side of a TransformStream.  The record io holds                *)
(*   path: which entry point serves the response,                          *)
(*   pc: "idle", "read" (a read of the upstream is outstanding), "write"   *)
(*       (the SDK task awaits writer.write) or "closed",                   *)
(*   reads: the number of upstream reads issued, cur: the read whose       *)
(*       output is being written, writes: the writes left for it,          *)
(*   final: the loop is over and the task writes its last chunks,          *)
(*   queue: for each chunk handed to the stream and not yet taken by the   *)
(*       client, the number of the read it came from,                      *)
(*   client: "open" or "cancelled", readsAfterCancel: the reads issued     *)
(*       since the client cancelled,                                       *)
(*   released: the upstream reader or connection has been given up.        *)
(***************************************************************************)
\* Bound on the upstream reads of one stream.
MaxReads == 4

\* Bound on the chunks one read gives rise to.
MaxChunks == 2

PInit ==
    [path |-> "none", pc |-> "idle", reads |-> 0, cur |-> 0, writes |-> 0,
     final |-> FALSE, queue |-> <<>>, client |-> "open", readsAfterCancel |-> 0,
     released |-> FALSE]

\* await reader.read(), or the next turn of for await (const event of stream)
PIssueRead(p) ==
    [p EXCEPT !.pc = "read", !.reads = @ + 1,
              !.readsAfterCancel = IF p.client = "cancelled" THEN @ + 1 ELSE @]

\* controller.enqueue for the k chunks of one read: the chunks join the
\* queue of the stream whatever its length; once the stream is cancelled
\* enqueue throws a TypeError, which the catch around the event swallows
PEnqueue(p, k) ==
    IF p.client = "open"
    THEN [p EXCEPT !.queue = @ \o [i \in 1..k |-> p.reads]]
    ELSE p

\* convertStreamResponse, one turn of while (true) after a read returned
\* data: every line is handled and the next read is issued
PManualData(p, k) == PIssueRead(PEnqueue(p, k))

\* convertStreamResponse after a read returned done, or threw: the closing
\* chunks (none when the read threw), then finally { releaseLock; close }
PManualEnd(p, k) ==
    [PEnqueue(p, k) EXCEPT !.pc = "closed", !.released = TRUE]

\* convertStreamWithSDK: the stream is requested and the initial role chunk
\* is written before the first event is awaited
PSdkStart(p) ==
    [p EXCEPT !.path = "sdk", !.pc = "write", !.cur = 0, !.writes = 1,
              !.queue = <<0>>]

\* convertStreamWithSDK, one event: each of its k chunks is written and
\* awaited in turn; an event without chunks leads to the next event at once
PSdkEvent(p, k) ==
    IF k = 0 THEN PIssueRead(p)
    ELSE [p EXCEPT !.pc = "write", !.cur = p.reads, !.writes = k,
                   !.queue = <<p.reads>>]

\* the loop is over: finalMessage(), then the finish chunk and the sentinel
PSdkDone(p) ==
    [p EXCEPT !.pc = "write", !.cur = p.reads, !.writes = 2, !.final = TRUE,
              !.queue = <<p.reads>>, !.released = TRUE]

\* the iterator threw: catch writes the sentinel
PSdkError(p) ==
    [p EXCEPT !.pc = "write", !.cur = p.reads, !.writes = 1, !.final = TRUE,
              !.queue = <<p.reads>>, !.released = TRUE]

\* await writer.write(...) resolved: the client took the chunk
PSdkWritten(p) ==
    IF p.writes > 1
    THEN [p EXCEPT !.writes = @ - 1, !.queue = <<p.cur>>]
    ELSE IF p.final
    THEN [p EXCEPT !.writes = 0, !.queue = <<>>, !.pc = "closed"]
    ELSE PIssueRead([p EXCEPT !.writes = 0, !.queue = <<>>])

\* await writer.write(...) rejected, the readable side being cancelled:
\* catch (its write rejects too), finally (close rejects too).  A throw
\* inside the body of for await returns the iterator; the write before the
\* loop and the writes after it are outside of it.
PSdkRejected(p) ==
    [p EXCEPT !.pc = "closed", !.writes = 0,
              !.released = @ \/ (~p.final /\ p.cur > 0)]

\* the client cancels the body: the stream drops what it holds; the source
\* of the ReadableStream has no cancel(), the task of the SDK path learns of
\* it from its next write
PCancel(p) == [p EXCEPT !.client = "cancelled", !.queue = <<>>]

(***************************************************************************)
(* One image part.  The record im holds the URL of the part while it is    *)
(* put together token by token, then the content array and the messages    *)
(* convertMessages makes of a user message with this one part.             *)
(***************************************************************************)
\* Bound on the tokens of an image URL.
MaxUrlLen == 7

UrlTokens == {"data:", "image/png", ";", "base64,", "AA", "\n", "https://x/y.png"}

ImInit == [pc |-> "build", url |-> <<>>, content |-> <<>>, messages |-> <<>>, threw |-> FALSE]

ImageMessage(url) ==
    Message("user", "array", <<>>, <<Part("image_url", <<>>, url)>>, <<>>, "")

(***************************************************************************)
(* saveRequestLog (src/src/index.ts).  Each call reads the stored list,    *)
(* awaits, puts its log in front, keeps five entries and stores the list;  *)
(* the calls of requests in flight pass one another at the two awaits.     *)
(* Logs are numbered in the order of their calls.  The record lg holds the *)
(* stored list, for each caller its position, its log and the list it      *)
(* read, the number of calls so far, and the logs in the order in which    *)
(* their calls stored them.                                                *)
(***************************************************************************)
\* Bound on the number of saveRequestLog calls.
MaxLogCalls == 6

\* logs.slice(0, 5)
KeptLogs == 5

LogCallers == {"r1", "r2"}

LogCall(pc, log, logs) == [pc |-> pc, log |-> log, logs |-> logs]

LgInit ==
    [stored |-> <<>>, call |-> [c \in LogCallers |-> LogCall("idle", 0, <<>>)],
     calls |-> 0, saved |-> <<>>]

\* logs.slice(0, end)
Slice(logs, end) == SubSeq(logs, 1, IF Len(logs) < end THEN Len(logs) ELSE end)

\* logs.unshift(log); logs = logs.slice(0, 5)
NewLogs(logs, log) == Slice(<<log>> \o logs, KeptLogs)

(***************************************************************************)
(* The read loop of convertStreamResponse over the bytes of the upstream.  *)
(* A data line is two pieces of text, so that a read may end inside it;    *)
(* LF is the line feed.  The record rd holds the lines of the body, the    *)
(* bytes not yet read, the local buffer, and the accumulator and output of *)
(* the loop.                                                               *)
(***************************************************************************)
\* Bound on the lines of the body.
MaxBodyLines == 2

BodyLines ==
    {Line("message_start", "", <<>>, "", "null"),
     Line("content_block_delta", "text_delta", <<"a">>, "", "null"),
     Line("message_delta", "", <<>>, "", "end_turn"),
     Line("message_stop", "", <<>>, "", "null")}

Piece(l, half) == [line |-> l, half |-> half]

LF == Piece(NoLine, 0)

\* the bytes of one line, without its line feed
BytesOf(l) == <<Piece(l, 1), Piece(l, 2)>>

RdInit ==
    [pc |-> "build", lines |-> <<>>, bytes |-> <<>>, buffer |-> <<>>, m |-> MInit]

\* the line a piece of text between two line feeds is: blank, a data line
\* with an event, or text JSON.parse rejects
LineOf(text) ==
    IF text = <<>> THEN Line("skip", "", <<>>, "", "null")
    ELSE IF Len(text) = 2 /\ text = BytesOf(text[1].line) THEN text[1].line
    ELSE Line("bad", "", <<>>, "", "null")

\* chunk.split('\n'): the texts between the line feeds, the last one being
\* what follows the last line feed
RECURSIVE SplitLF(_, _)
SplitLF(chunk, text) ==
    IF chunk = <<>> THEN <<text>>
    ELSE IF Head(chunk) = LF THEN <<text>> \o SplitLF(Tail(chunk), <<>>)
    ELSE SplitLF(Tail(chunk), Append(text, Head(chunk)))

\* for (const line of lines)
RECURSIVE MLines(_, _)
MLines(m, lines) ==
    IF lines = <<>> THEN m ELSE MLines(MLine(m, LineOf(Head(lines))), Tail(lines))

\* one turn of while (true): chunk = buffer + decoder.decode(value),
\* lines = chunk.split('\n'), buffer = lines.pop() || ''
RdTurn(r, value) ==
    LET lines == SplitLF(r.buffer \o value, <<>>)
    IN [r EXCEPT !.buffer = lines[Len(lines)],
                 !.m = MLines(r.m, SubSeq(lines, 1, Len(lines) - 1))]

\* read() reports done: what is left in buffer, the closing chunks, finally
RdDone(r) ==
    [r EXCEPT !.pc = "done",
              !.m = MEndOfStream(r.m, IF r.buffer = <<>> THEN NoLine
                                      ELSE LineOf(r.buffer))]

(***************************************************************************)
(* State and actions                                                       *)
(***************************************************************************)
VARIABLES
    mode,    \* "init", "stream" or "normal": what the response is converted as
    m,       \* convertStreamResponse
    s,       \* convertStreamWithSDK
    normal,  \* the body convertNormalResponse returned
    ev,      \* the upstream line handled last
    n,       \* number of upstream lines handled
    h,       \* history
    rt,      \* fetchWithRetry
    mp,      \* the model mapping table
    rq,      \* one request to handleOpenAIToClaude
    nr,      \* the body given to convertNormalResponse
    cc,      \* the requests in flight and the KV entry
    io,       \* the stream tasks between upstream and client
    im,       \* one image part and its conversion
    lg,       \* saveRequestLog and the stored log list
    rd       \* the read loop over the bytes of the upstream

\* the state of the response converters, and the state of the rest
streamVars == <<mode, m, s, normal, ev, n, h>>
otherVars == <<rt, mp, rq, nr, cc, io, im, lg, rd>>

vars == <<mode, m, s, normal, ev, n, h, rt, mp, rq, nr, cc, io, im, lg, rd>>

Init ==
    /\ mode = "init"
    /\ m = MInit
    /\ s = SInit
    /\ normal = NoResponse
    /\ ev = NoLine
    /\ n = 0
    /\ h = HInit
    /\ rt = RInit
    /\ mp = MpInit
    /\ rq = RqInit
    /\ nr = NrInit
    /\ cc = CcInit
    /\ io = PInit
    /\ im = ImInit
    /\ lg = LgInit
    /\ rd = RdInit

\* a stream response with a body: the reader is taken, the SDK task starts
StartStream ==
    /\ mode = "init"
    /\ mode' = "stream"
    /\ m' = [m EXCEPT !.pc = "reading"]
    /\ s' = SStart(s)
    /\ UNCHANGED <<normal, ev, n, h>>
    /\ UNCHANGED otherVars

\* a stream response without a body
StartNoBody ==
    /\ mode = "init"
    /\ mode' = "stream"
    /\ m' = MNoBody(m)
    /\ h' = [h EXCEPT !.end = "nobody"]
    /\ UNCHANGED <<s, normal, ev, n>>
    /\ UNCHANGED otherVars

\* a response that is not an event stream
ConvertNormal ==
    /\ mode = "init"
    /\ \E r \in StopReasons :
         normal' = convertNormalResponse(r)
    /\ mode' = "normal"
    /\ UNCHANGED <<m, s, ev, n, h>>
    /\ UNCHANGED otherVars

\* one newline-terminated upstream line, drawn from LineSet
Feed(LineSet, max) ==
    /\ mode = "stream"
    /\ m.pc = "reading"
    /\ n < max
    /\ \E l \in LineSet :
         /\ m' = MLine(m, l)
         /\ s' = SLine(s, l)
         /\ ev' = l
         /\ h' = HLine(h, l, Len(m.out), Len(s.out))
    /\ n' = n + 1
    /\ UNCHANGED <<mode, normal>>
    /\ UNCHANGED otherVars

Upstream == Feed(Lines, MaxLines)

UpstreamBlocks == Feed(BlockLines, MaxBlockLines)

\* the upstream ends; buf is the last line when it lacks its newline
EndOfStream ==
    /\ mode = "stream"
    /\ m.pc = "reading"
    /\ \E buf \in TailLines, finalThrows \in BOOLEAN :
         /\ m' = MEndOfStream(m, buf)
         /\ s' = SEndOfStream(SLine(s, buf), finalThrows)
         /\ ev' = buf
         /\ h' = [HLine(h, buf, Len(m.out), Len(s.out))
                    EXCEPT !.end = "eof", !.finalThrew = finalThrows]
    /\ UNCHANGED <<mode, normal, n>>
    /\ UNCHANGED otherVars

\* reading the upstream fails
ReadError ==
    /\ mode = "stream"
    /\ m.pc = "reading"
    /\ m' = MReadError(m)
    /\ s' = SReadError(s)
    /\ ev' = NoLine
    /\ h' = [h EXCEPT !.prevM = Len(m.out), !.prevS = Len(s.out), !.end = "error",
                      !.closedKind = "none"]
    /\ UNCHANGED <<mode, normal, n>>
    /\ UNCHANGED otherVars

(***************************************************************************)
(* fetchWithRetry: one call, from its first attempt to its return or throw *)
(***************************************************************************)
\* fetchWithRetry(request) is called
RetryCall ==
    /\ rt.pc = "idle"
    /\ rt' = RCall(rt)
    /\ UNCHANGED <<streamVars, mp, rq, nr, cc, io, im, lg, rd>>

\* await fetch(reqClone) answers with a response
AttemptResponse ==
    /\ rt.pc = "fetch"
    /\ \E status \in Statuses :
         LET response == ResponseOf(status, rt.attempt)
         IN rt' = RResponse(RSeen(rt, response), response)
    /\ UNCHANGED <<streamVars, mp, rq, nr, cc, io, im, lg, rd>>

\* await fetch(reqClone) throws
AttemptException ==
    /\ rt.pc = "fetch"
    /\ \E msg \in Exceptions :
         LET error == ErrorOf(msg, rt.attempt)
         IN rt' = RException(RSeen(rt, error), error)
    /\ UNCHANGED <<streamVars, mp, rq, nr, cc, io, im, lg, rd>>

\* the timer of sleep(RETRY_DELAY_MS) fires
Sleep ==
    /\ rt.pc = "sleep"
    /\ rt' = RSleep(rt)
    /\ UNCHANGED <<streamVars, mp, rq, nr, cc, io, im, lg, rd>>

NextRetry ==
    \/ RetryCall
    \/ AttemptResponse
    \/ AttemptException
    \/ Sleep

SpecRetry == Init /\ [][NextRetry]_vars

\* fetch settles and the timer fires: a step that can be taken is taken
SpecRetryFair == Init /\ [][NextRetry]_vars /\ WF_vars(NextRetry)

(***************************************************************************)
(* The model mapping table                                                 *)
(***************************************************************************)
\* setModelMapping(mapping), from initConfig or handleSaveMapping
SetMapping ==
    /\ \E mapping \in Partials : mp' = MpSet(mp, mapping)
    /\ UNCHANGED <<streamVars, rt, rq, nr, cc, io, im, lg, rd>>

\* mapModelName(inputModel)
Resolve ==
    /\ \E inputModel \in AllKeys :
         mp' = [mp EXCEPT !.inputModel = inputModel,
                          !.result = mapModelName(mp.currentModelMapping, inputModel)]
    /\ UNCHANGED <<streamVars, rt, rq, nr, cc, io, im, lg, rd>>

NextMapper == SetMapping \/ Resolve

SpecMapper == Init /\ [][NextMapper]_vars

(***************************************************************************)
(* One request to handleOpenAIToClaude                                     *)
(***************************************************************************)
\* a request body arrives: its model, its stream flag, its messages field
NewRequest ==
    /\ rq.pc = "idle"
    /\ \E model \in RequestModels, stream \in BOOLEAN, shape \in MessagesShapes :
         rq' = [rq EXCEPT !.pc = "building", !.body = Body(model, stream, shape, <<>>)]
    /\ UNCHANGED <<streamVars, rt, mp, nr, cc, io, im, lg, rd>>

\* the message lists of the requests that come with number fields
FieldMessages ==
    {<<Message("user", "string", <<"hi">>, <<>>, <<>>, "")>>,
     <<Message("assistant", "null", <<>>, <<>>, <<ToolCall("t1", "{}")>>, ""),
       Message("tool", "string", <<"r">>, <<>>, <<>>, "t1")>>}

\* a whole request body arrives, max_tokens and temperature included
NewRequestWithFields ==
    /\ rq.pc = "idle"
    /\ \E model \in RequestModels, stream \in BOOLEAN, shape \in MessagesShapes,
          messages \in FieldMessages, max_tokens \in MaxTokens,
          temperature \in Temperatures :
         rq' = [rq EXCEPT !.pc = "building",
                          !.body = BodyWith(model, stream, shape, messages,
                                            max_tokens, temperature)]
    /\ UNCHANGED <<streamVars, rt, mp, nr, cc, io, im, lg, rd>>

\* one more message in the messages array of the body
AddMessage ==
    /\ rq.pc = "building"
    /\ rq.body.shape = "array"
    /\ Len(rq.body.messages) < MaxMsgs
    /\ \E message \in SourceMessages :
         rq' = [rq EXCEPT !.body.messages = Append(@, message)]
    /\ UNCHANGED <<streamVars, rt, mp, nr, cc, io, im, lg, rd>>

\* POST /v1/chat/completions, the route and the upstream bodies drawn from
\* the given sets
HandleFrom(Types, Bodies) ==
    /\ rq.pc = "building"
    /\ \E proxyType \in Types, apiKey \in BOOLEAN, upstream \in RetryResults,
          upstreamBody \in Bodies :
         rq' = [rq EXCEPT
                  !.pc = "done",
                  !.proxyType = proxyType,
                  !.conv = ConvertBodyMessages(rq.body),
                  !.upstream = [status |-> upstream,
                                body |-> IF upstream = RetryThrew THEN <<>> ELSE upstreamBody],
                  !.reply = chatCompletions(proxyType, rq.body, apiKey,
                                            mp.currentModelMapping, upstream, upstreamBody)]
    /\ UNCHANGED <<streamVars, rt, mp, nr, cc, io, im, lg, rd>>

\* handleOpenAIToClaude(request, env, requestId, ctx)
Handle == HandleFrom({"claude"}, {<<"E">>})

\* either handler, any upstream body
HandleRouted == HandleFrom(ProxyTypes, UpstreamBodies)

NextReq == NewRequest \/ AddMessage \/ Handle

SpecReq == Init /\ [][NextReq]_vars

NextFields == NewRequestWithFields \/ HandleRouted

SpecFields == Init /\ [][NextFields]_vars

(***************************************************************************)
(* One body through convertNormalResponse                                  *)
(***************************************************************************)
\* an upstream body arrives: its usage and its stop_reason
NewResponse ==
    /\ nr.pc = "idle"
    /\ \E usage \in {NoUsage} \cup {ClaudeUsage(a, b) : a, b \in TokenCounts},
          stop_reason \in {"end_turn", "tool_use"} :
         nr' = [nr EXCEPT !.pc = "building",
                          !.claudeData = ClaudeData(<<>>, usage, stop_reason)]
    /\ UNCHANGED <<streamVars, rt, mp, rq, cc, io, im, lg, rd>>

\* one more block in the content array of the body
AddBlock ==
    /\ nr.pc = "building"
    /\ Len(nr.claudeData.content) < MaxBlocks
    /\ \E block \in ResponseBlocks :
         nr' = [nr EXCEPT !.claudeData.content = Append(@, block)]
    /\ UNCHANGED <<streamVars, rt, mp, rq, cc, io, im, lg, rd>>

\* convertNormalResponse(claudeResponse)
ConvertBody ==
    /\ nr.pc = "building"
    /\ nr' = [nr EXCEPT !.pc = "done", !.out = convertNormalBody(nr.claudeData)]
    /\ UNCHANGED <<streamVars, rt, mp, rq, cc, io, im, lg, rd>>

NextNormal == NewResponse \/ AddBlock \/ ConvertBody

SpecNormal == Init /\ [][NextNormal]_vars

(***************************************************************************)
(* Requests in flight                                                      *)
(***************************************************************************)
\* fetch: a request arrives and initConfig asks the KV store for the saved
\* mapping; the store answers with what it holds now
InitGet(r) ==
    /\ cc.req[r].pc = "idle"
    /\ r = "save" => cc.saves < MaxSaves
    /\ cc' = [cc EXCEPT !.req[r].pc = "init", !.req[r].loaded = cc.kv,
                        !.saves = IF r = "save" THEN @ + 1 ELSE @]
    /\ UNCHANGED <<streamVars, rt, mp, rq, nr, io, im, lg, rd>>

\* initConfig goes on after its await: if (savedMapping) setModelMapping(...)
InitSet(r) ==
    /\ cc.req[r].pc = "init"
    /\ IF cc.req[r].loaded.present
       THEN /\ mp' = MpSet(mp, cc.req[r].loaded.table)
            /\ cc' = [cc EXCEPT !.req[r].pc = "handle",
                                !.handed = @ \cup {cc.req[r].loaded.table}]
       ELSE /\ mp' = mp
            /\ cc' = [cc EXCEPT !.req[r].pc = "handle"]
    /\ UNCHANGED <<streamVars, rt, rq, nr, io, im, lg, rd>>

\* a chat request, after the await of its body: mapModelName(model)
ChatResolve(r) ==
    /\ r \in ChatRequests
    /\ cc.req[r].pc = "handle"
    /\ \E alias \in ChatAliases :
         cc' = [cc EXCEPT !.req[r].pc = "resolved",
                          !.req[r].alias = alias,
                          !.req[r].saw = mp.currentModelMapping,
                          !.req[r].result = mapModelName(mp.currentModelMapping, alias)]
    /\ UNCHANGED <<streamVars, rt, mp, rq, nr, io, im, lg, rd>>

\* handleSaveMapping, after the await of its body: setModelMapping(newMapping)
SaveSet ==
    /\ cc.req["save"].pc = "handle"
    /\ \E mapping \in SavedPartials :
         /\ mp' = MpSet(mp, mapping)
         /\ cc' = [cc EXCEPT !.req["save"].pc = "put",
                             !.req["save"].mapping = mapping,
                             !.handed = @ \cup {mapping}]
    /\ UNCHANGED <<streamVars, rt, rq, nr, io, im, lg, rd>>

\* handleSaveMapping: CONFIG_KV.put stores the mapping; the request is done
\* and the next save request may come
SavePut ==
    /\ cc.req["save"].pc = "put"
    /\ cc' = [cc EXCEPT !.kv = Saved(cc.req["save"].mapping),
                        !.req["save"] = NotStarted]
    /\ UNCHANGED <<streamVars, rt, mp, rq, nr, io, im, lg, rd>>

NextInFlight ==
    \/ \E r \in Requests : InitGet(r)
    \/ \E r \in Requests : InitSet(r)
    \/ \E r \in ChatRequests : ChatResolve(r)
    \/ SaveSet
    \/ SavePut

SpecInFlight == Init /\ [][NextInFlight]_vars

(***************************************************************************)
(* The stream tasks                                                        *)
(***************************************************************************)
\* convertToClaudeResponse hands the body to convertStreamResponse: start()
\* takes the reader and issues the first read
ManualStart ==
    /\ io.pc = "idle"
    /\ io' = PIssueRead([io EXCEPT !.path = "manual"])
    /\ UNCHANGED <<streamVars, rt, mp, rq, nr, cc, im, lg, rd>>

\* handleOpenAIToClaude hands the request to convertStreamWithSDK
SdkStart ==
    /\ io.pc = "idle"
    /\ io' = PSdkStart(io)
    /\ UNCHANGED <<streamVars, rt, mp, rq, nr, cc, im, lg, rd>>

\* the outstanding read returns data that gives rise to k chunks
ReadData ==
    /\ io.pc = "read"
    /\ io.reads < MaxReads
    /\ \E k \in 0..MaxChunks :
         io' = IF io.path = "manual" THEN PManualData(io, k) ELSE PSdkEvent(io, k)
    /\ UNCHANGED <<streamVars, rt, mp, rq, nr, cc, im, lg, rd>>

\* the outstanding read reports the end of the upstream
ReadDone ==
    /\ io.pc = "read"
    /\ \E k \in 0..MaxChunks :
         io' = IF io.path = "manual" THEN PManualEnd(io, k) ELSE PSdkDone(io)
    /\ UNCHANGED <<streamVars, rt, mp, rq, nr, cc, im, lg, rd>>

\* the outstanding read fails
ReadFails ==
    /\ io.pc = "read"
    /\ io' = IF io.path = "manual" THEN PManualEnd(io, 0) ELSE PSdkError(io)
    /\ UNCHANGED <<streamVars, rt, mp, rq, nr, cc, im, lg, rd>>

\* the client takes the next chunk: from the queue of the ReadableStream,
\* or the one the SDK task is writing
ClientPull ==
    /\ io.client = "open"
    /\ io.queue # <<>>
    /\ io' = IF io.path = "manual" THEN [io EXCEPT !.queue = Tail(@)]
             ELSE PSdkWritten(io)
    /\ UNCHANGED <<streamVars, rt, mp, rq, nr, cc, im, lg, rd>>

\* the client cancels or disconnects
ClientCancel ==
    /\ io.client = "open"
    /\ io.pc # "idle"
    /\ io' = PCancel(io)
    /\ UNCHANGED <<streamVars, rt, mp, rq, nr, cc, im, lg, rd>>

\* the write of the SDK task rejects after the cancellation
WriteRejected ==
    /\ io.path = "sdk"
    /\ io.pc = "write"
    /\ io.client = "cancelled"
    /\ io' = PSdkRejected(io)
    /\ UNCHANGED <<streamVars, rt, mp, rq, nr, cc, im, lg, rd>>

NextTasks ==
    \/ ManualStart
    \/ SdkStart
    \/ ReadData
    \/ ReadDone
    \/ ReadFails
    \/ ClientPull
    \/ ClientCancel
    \/ WriteRejected

SpecTasks == Init /\ [][NextTasks]_vars

(***************************************************************************)
(* One image part                                                          *)
(***************************************************************************)
\* the URL of the part grows by one token
UrlToken ==
    /\ im.pc = "build"
    /\ Len(im.url) < MaxUrlLen
    /\ \E t \in UrlTokens : im' = [im EXCEPT !.url = Append(@, t)]
    /\ UNCHANGED <<streamVars, rt, mp, rq, nr, cc, io, lg, rd>>

\* convertMessages on a user message whose content is this one image part,
\* or an image part without image_url
ConvertImagePart ==
    /\ im.pc = "build"
    /\ \E url \in {im.url} \cup (IF im.url = <<>> THEN {NoImageUrl} ELSE {}) :
         LET message == ImageMessage(url)
             acc == ConvLoop(ConvInit, <<message>>, 1)
         IN im' = [pc |-> "done", url |-> url,
                   content |-> ContentBlocks(message, 1),
                   messages |-> acc.claudeMessages, threw |-> acc.threw]
    /\ UNCHANGED <<streamVars, rt, mp, rq, nr, cc, io, lg, rd>>

NextParts == UrlToken \/ ConvertImagePart

SpecParts == Init /\ [][NextParts]_vars

(***************************************************************************)
(* saveRequestLog                                                          *)
(***************************************************************************)
\* a request calls saveRequestLog: CONFIG_KV.get gives the stored list
LogGet(c) ==
    /\ lg.call[c].pc = "idle"
    /\ lg.calls < MaxLogCalls
    /\ lg' = [lg EXCEPT !.calls = @ + 1,
                        !.call[c] = LogCall("put", lg.calls + 1, lg.stored)]
    /\ UNCHANGED <<streamVars, rt, mp, rq, nr, cc, io, im, rd>>

\* the call goes on after its await: unshift, slice, CONFIG_KV.put
LogPut(c) ==
    /\ lg.call[c].pc = "put"
    /\ lg' = [lg EXCEPT !.stored = NewLogs(lg.call[c].logs, lg.call[c].log),
                        !.saved = Append(@, lg.call[c].log),
                        !.call[c] = LogCall("idle", 0, <<>>)]
    /\ UNCHANGED <<streamVars, rt, mp, rq, nr, cc, io, im, rd>>

NextLogs == \E c \in LogCallers : LogGet(c) \/ LogPut(c)

SpecLogs == Init /\ [][NextLogs]_vars

(***************************************************************************)
(* The read loop over the bytes of the upstream                            *)
(***************************************************************************)
\* the body gets one more line, ended by a line feed
BodyLine ==
    /\ rd.pc = "build"
    /\ Len(rd.lines) < MaxBodyLines
    /\ \E l \in BodyLines :
         rd' = [rd EXCEPT !.lines = Append(@, l),
                          !.bytes = @ \o BytesOf(l) \o <<LF>>]
    /\ UNCHANGED <<streamVars, rt, mp, rq, nr, cc, io, im, lg>>

\* the body is complete, with or without the line feed of its last line;
\* start() takes the reader
BodyComplete ==
    /\ rd.pc = "build"
    /\ rd.lines # <<>>
    /\ \E trailing \in BOOLEAN :
         rd' = [rd EXCEPT !.pc = "reading",
                          !.m.pc = "reading",
                          !.bytes = IF trailing THEN @
                                    ELSE SubSeq(@, 1, Len(@) - 1)]
    /\ UNCHANGED <<streamVars, rt, mp, rq, nr, cc, io, im, lg>>

\* reader.read() returns the next k bytes
ReadBytes ==
    /\ rd.pc = "reading"
    /\ \E k \in 1..Len(rd.bytes) :
         rd' = [RdTurn(rd, SubSeq(rd.bytes, 1, k))
                  EXCEPT !.bytes = SubSeq(rd.bytes, k + 1, Len(rd.bytes))]
    /\ UNCHANGED <<streamVars, rt, mp, rq, nr, cc, io, im, lg>>

\* reader.read() returns done
ReadBytesDone ==
    /\ rd.pc = "reading"
    /\ rd.bytes = <<>>
    /\ rd' = RdDone(rd)
    /\ UNCHANGED <<streamVars, rt, mp, rq, nr, cc, io, im, lg>>

NextReads == BodyLine \/ BodyComplete \/ ReadBytes \/ ReadBytesDone

SpecReads == Init /\ [][NextReads]_vars

Next ==
    \/ StartStream
    \/ StartNoBody
    \/ ConvertNormal
    \/ Upstream
    \/ EndOfStream
    \/ ReadError

Spec == Init /\ [][Next]_vars

\* streams of content-block events alone, one line longer
NextBlocks ==
    \/ StartStream
    \/ UpstreamBlocks
    \/ EndOfStream
    \/ ReadError

SpecBlocks == Init /\ [][NextBlocks]_vars

(***************************************************************************)
(* Properties                                                              *)
(***************************************************************************)
CountK(out, k) == Cardinality({i \in DOMAIN out : out[i].k = k})

\* the chunks appended to out since it had length prev
Emitted(out, prev) == SubSeq(out, prev + 1, Len(out))

IsContent(c) == c.k = "content"

ContentsOf(out) == SelectSeq(out, IsContent)

IsNonEmpty(str) == str # <<>>

ChunksOf(incs) == [i \in DOMAIN incs |-> ContentChunk(incs[i])]

RECURSIVE Flatten(_)
Flatten(ss) == IF ss = <<>> THEN <<>> ELSE Head(ss) \o Flatten(Tail(ss))

\* the last chunk is the sentinel and a finish-reason chunk precedes it
EndsFinishDone(out) ==
    /\ Len(out) >= 2
    /\ out[Len(out)].k = "done"
    /\ out[Len(out) - 1].k = "finish"

\* the stop-reason table of the non-stream response converter
StopReasonTable(r) ==
    IF r = "end_turn" THEN "stop"
    ELSE IF r = "tool_use" THEN "tool_calls"
    ELSE IF r = "max_tokens" THEN "length"
    ELSE "null"

\* C1: when the upstream of the manual SSE path ends without any
\* message_stop line, the output holds exactly one finish-reason chunk and
\* exactly one sentinel, the finish-reason chunk before the sentinel, the
\* sentinel last, and the stream is closed.
C1_TruncationWellFormed ==
    (h.end = "eof" /\ h.nStop = 0) =>
        /\ m.closed
        /\ CountK(m.out, "finish") = 1
        /\ CountK(m.out, "done") = 1
        /\ Len(m.out) > 0 /\ m.out[Len(m.out)].k = "done"

\* C2: whatever lines the upstream delivered before it ended, each entry
\* point has emitted the sentinel exactly once.
C2_SentinelExactlyOnce ==
    (h.end = "eof") =>
        /\ CountK(m.out, "done") = 1
        /\ CountK(s.out, "done") = 1

\* C3: when reading the upstream fails, each entry point ends its output
\* with a finish-reason chunk and then the sentinel before closing.
C3_ReadErrorStillTerminates ==
    (h.end = "error") =>
        /\ m.closed /\ EndsFinishDone(m.out)
        /\ s.closed /\ EndsFinishDone(s.out)

\* C4: the first chunk of every non-empty output is the role chunk, on both
\* entry points, whatever the upstream sent first.
C4_RoleChunkFirst ==
    /\ (Len(m.out) > 0 => m.out[1] = RoleChunk)
    /\ (Len(s.out) > 0 => s.out[1] = RoleChunk)

\* C5: in a stream whose blocks are properly opened and closed, a
\* content_block_stop emits one tool-call chunk when it closes a tool_use
\* block and none when it closes a text or thinking block.
C5_OneToolChunkPerBlock ==
    (ev.type = "content_block_stop" /\ h.end = "none" /\ h.nested) =>
        LET want == IF h.closedKind = "tool_use" THEN 1 ELSE 0
        IN /\ CountK(Emitted(m.out, h.prevM), "tool") = want
           /\ CountK(Emitted(s.out, h.prevS), "tool") = want

\* C6: an input_json_delta emits nothing, and the content_block_stop that
\* closes a tool_use block emits one tool-call chunk, last, whose id is the
\* block's and whose arguments are the in-order concatenation of the
\* partial_json fragments received since that block's content_block_start.
C6_ToolArguments ==
    /\ (ev.type = "content_block_delta" /\ ev.kind = "input_json_delta"
          /\ h.end = "none") =>
            /\ Len(m.out) = h.prevM
            /\ Len(s.out) = h.prevS
    /\ (ev.type = "content_block_stop" /\ h.end = "none"
          /\ h.closedKind = "tool_use") =>
            LET args == Flatten(h.blk.incs)
                cm == m.out[Len(m.out)]
                cs == s.out[Len(s.out)]
            IN /\ CountK(Emitted(m.out, h.prevM), "tool") = 1
               /\ cm.k = "tool" /\ cm.s = args /\ cm.id = h.blk.id
               /\ CountK(Emitted(s.out, h.prevS), "tool") = 1
               /\ cs.k = "tool" /\ cs.s = args /\ cs.id = h.blk.id

\* a tool_use block with the fragments "a" then "b" has just been closed
C6_Witness ==
    /\ ev.type = "content_block_stop" /\ h.end = "none"
    /\ h.closedKind = "tool_use"
    /\ h.blk.incs = << <<"a">>, <<"b">> >>

\* the thinking block opened last was followed by thinking_delta lines only
ThinkingOpen == h.end = "none" /\ h.blk.kind = "thinking" /\ h.blk.pure /\ h.blk.open

ThinkingClosed ==
    /\ h.end = "none" /\ ev.type = "content_block_stop"
    /\ h.closedKind = "thinking" /\ h.blk.pure

Wrapped(incs) == <<ContentChunk(OpenTag)>> \o ChunksOf(incs) \o <<ContentChunk(CloseTag)>>

C8_EntryPointsAgree ==
    (h.end = "eof" /\ ~h.finalThrew /\ ev = NoLine /\ h.phase = "stopped") =>
        m.out = s.out

C10_BadLineSkipped ==
    [][(ev'.type = "bad" /\ mode = "stream") =>
          IF h'.end = "none" THEN m' = m ELSE m' = MEndOfStream(m, NoLine)]_vars

\* a bad line arrived while a thinking segment and a tool call were pending
C10_Witness ==
    /\ ev.type = "bad" /\ h.end = "none"
    /\ m.inThinkingBlock /\ Len(m.toolCalls) > 0 /\ Len(m.out) > 0 /\ ~m.closed

(***************************************************************************)
(* fetchWithRetry                                                          *)
(***************************************************************************)
RDone == rt.pc \in {"returned", "thrown"}

IsTransient(o) == o.kind = "response" /\ o.status \in RETRY_STATUS_CODES
IsFinal(o) == o.kind = "response" /\ o.status \notin RETRY_STATUS_CODES

\* C11: when an attempt is answered with a status outside {502, 503, 504},
\* fetchWithRetry has returned that very response, and nothing follows it:
\* it was the last fetch call, no sleep came after it (the sleeps are the
\* ones between the earlier attempts) and no further step can be taken.
C11_NonTransientReturnedAtOnce ==
    IsFinal(rt.last) =>
        /\ rt.pc = "returned"
        /\ rt.returned = rt.last
        /\ rt.calls = rt.last.at
        /\ rt.slept = RETRY_DELAY_MS * (rt.calls - 1)
        /\ ~ENABLED NextRetry

\* a 400 on the third attempt, after two transient answers
C11_Witness ==
    /\ rt.pc = "returned"
    /\ rt.returned = ResponseOf(400, 3)
    /\ rt.lastResponse = ResponseOf(503, 2)
    /\ rt.slept = 2 * RETRY_DELAY_MS

\* C12: once fetchWithRetry has finished: if a non-transient response was
\* received it is the only one, it is the last outcome and it is what was
\* returned; else if any response was received, the last transient response
\* is what was returned; an exception is raised exactly when all attempts
\* of the cap failed at the connection level and no response was ever
\* received, and it is the exception of the last attempt.
C12_ExhaustionOutcome ==
    RDone =>
        /\ rt.nFinal > 0 =>
              rt.pc = "returned" /\ rt.nFinal = 1 /\ rt.returned = rt.last
        /\ (rt.nFinal = 0 /\ rt.nStatus > 0) =>
              rt.pc = "returned" /\ rt.returned = rt.lastTransient
        /\ rt.pc = "thrown" <=> rt.nStatus = 0
        /\ rt.pc = "thrown" =>
              /\ rt.calls = MAX_RETRIES
              /\ rt.thrown = rt.lastException
              /\ rt.thrown = rt.last

\* the cap is reached by an exception, a 503 was received on the way
C12_Witness ==
    /\ rt.pc = "returned"
    /\ rt.calls = MAX_RETRIES
    /\ rt.last.kind = "error"
    /\ rt.lastException.at > rt.returned.at
    /\ rt.returned.status = 503

C13_Bounded ==
    /\ rt.calls <= MAX_RETRIES
    /\ rt.pc = "fetch" => rt.attempt = rt.calls + 1 /\ rt.slept = RETRY_DELAY_MS * rt.calls
    /\ rt.pc = "sleep" => rt.calls < MAX_RETRIES /\ rt.slept = RETRY_DELAY_MS * (rt.calls - 1)
    /\ RDone => rt.calls >= 1 /\ rt.slept = RETRY_DELAY_MS * (rt.calls - 1)

\* C13: fetch is called at most MAX_RETRIES times; every sleep lasts
\* RETRY_DELAY_MS and lies between two consecutive attempts (while
\* sleeping another attempt is still to come, and a finished call with k
\* attempts has slept k - 1 times), never after the final one; and the call
\* always finishes, by returning or by raising.
C13_BoundedAttempts == [](C13_Bounded) /\ <>(RDone)

\* ten attempts that all failed at the connection level
C13_Witness ==
    /\ rt.pc = "thrown"
    /\ rt.calls = MAX_RETRIES
    /\ rt.slept = 9 * RETRY_DELAY_MS

(***************************************************************************)
(* The model mapping table                                                 *)
(***************************************************************************)
\* C16: mapModelName returns the table's entry for the alias when the alias
\* is a key of the table, and the alias itself otherwise.
C16_Resolve ==
    mp.inputModel # "" =>
        mp.result = IF HasOwn(mp.currentModelMapping, mp.inputModel)
                    THEN mp.currentModelMapping[mp.inputModel]
                    ELSE mp.inputModel

\* C17: after any sequence of setModelMapping calls the active table is the
\* default table overridden by the partial of the last call alone: a key of
\* that partial has the partial's value, every other key has its default
\* value (none, when it is no default key), whatever earlier calls had set;
\* every default key is present.
C17_DefaultsPreserved ==
    /\ \A k \in AllKeys :
         mp.currentModelMapping[k] =
            IF HasOwn(mp.partial, k) THEN mp.partial[k] ELSE DEFAULT_MODEL_MAPPING[k]
    /\ \A k \in DefaultKeys : HasOwn(mp.currentModelMapping, k)

\* a second call that overrides a default key and does not repeat the
\* custom key of the first
C17_Witness ==
    /\ mp.sets = 2
    /\ mp.before["custom"] = "claude-x"
    /\ ~HasOwn(mp.partial, "custom")
    /\ mp.partial["tinyy-model"] = "claude-x"
    /\ mp.currentModelMapping["tinyy-model"] = "claude-x"
    /\ ~HasOwn(mp.currentModelMapping, "custom")

(***************************************************************************)
(* The request converter                                                   *)
(***************************************************************************)
\* a request with an array of messages has been handled and convertMessages
\* returned
Converted == rq.pc = "done" /\ rq.body.shape = "array" /\ ~rq.conv.threw

Roles(messages) == [i \in 1..Len(messages) |-> messages[i].role]

IsSystem(message) == message.role = "system"
NotSystem(message) == message.role # "system"

\* positions i..j, i < j, are a maximal run of tool messages of src
IsToolRun(src, i, j) ==
    /\ i < j
    /\ \A x \in i..j : src[x].role = "tool"
    /\ i = 1 \/ src[i - 1].role # "tool"
    /\ j = Len(src) \/ src[j + 1].role # "tool"

\* the converted messages that hold a block made of source messages i..j
Holders(messages, i, j) ==
    {p \in 1..Len(messages) :
        \E b \in 1..Len(messages[p].blocks) : messages[p].blocks[b].from \in i..j}

\* src with the run i..j cut down to its first message
CutRun(src, i, j) == SubSeq(src, 1, i) \o SubSeq(src, j + 1, Len(src))

\* C14: for every run of k >= 2 consecutive tool messages of the source,
\* exactly one converted message holds blocks of the run; it is a user
\* message and holds, next to one another and in the order of the source,
\* the k tool_result blocks of the run (each with the id and the content of
\* its tool message); and the roles of the converted messages, in number
\* and order, are those of the conversion of the source with the run cut
\* down to one tool message.
C14_ToolResultMerging ==
    Converted =>
        LET src == rq.body.messages
            out == rq.conv.messages
        IN \A i, j \in 1..Len(src) :
             IsToolRun(src, i, j) =>
                /\ \E p \in 1..Len(out) :
                     /\ Holders(out, i, j) = {p}
                     /\ out[p].role = "user"
                     /\ \E o \in 0..(Len(out[p].blocks) - (j - i + 1)) :
                          \A x \in i..j :
                             out[p].blocks[o + x - i + 1] =
                                Block("tool_result", src[x].text, src[x].tool_call_id, x)
                /\ Roles(out) = Roles(convertMessages(CutRun(src, i, j)).messages)

\* an assistant message with a tool call, then two tool messages
C14_Witness ==
    /\ Converted
    /\ Len(rq.body.messages) = 3
    /\ rq.body.messages[1].role = "assistant"
    /\ IsToolRun(rq.body.messages, 2, 3)
    /\ rq.body.messages[2].tool_call_id = "t2"
    /\ rq.body.messages[3].tool_call_id = "t1"
    /\ Roles(rq.conv.messages) = <<"assistant", "user">>
    /\ Len(rq.conv.messages[2].blocks) = 2

\* C15: whenever a target request is built, for a reasoning alias it
\* carries the thinking flag if and only if no converted message holds a
\* tool_result block, and for any other model it does not carry the flag;
\* the non-stream requests are built by convertToProviderRequest, the
\* stream ones by convertStreamWithSDK.
C15_ReasoningSuppression ==
    (rq.pc = "done" /\ rq.reply.target.built) =>
        /\ rq.body.model \in THINKING_MODELS =>
              (rq.reply.target.thinking <=> ~HasToolResult(rq.reply.target.messages))
        /\ rq.body.model \notin THINKING_MODELS => ~rq.reply.target.thinking

\* the text of a system message: its string, or the text parts of its array
SystemText(message) ==
    IF message.ckind = "string" THEN message.text ELSE Join(TextsOf(message.parts), <<>>)

SystemTexts(src) ==
    LET sys == SelectSeq(src, IsSystem)
    IN [i \in 1..Len(sys) |-> SystemText(sys[i])]

StartsWith(str, prefix) ==
    Len(str) >= Len(prefix) /\ SubSeq(str, 1, Len(prefix)) = prefix

\* does the converted message mention the bracket of the preface
HasBracket(cm) ==
    \/ \E x \in 1..Len(cm.text) : cm.text[x] = "[System Instructions]"
    \/ \E b \in 1..Len(cm.blocks) :
          \E x \in 1..Len(cm.blocks[b].text) :
             cm.blocks[b].text[x] = "[System Instructions]"

\* C18: no converted message has the role system and no system field is
\* returned; when the source has a system message and the conversion a
\* user message, the first user message starts with the preface made of
\* the texts of all system messages joined by a blank line (in front of
\* its text, or as a leading text block of its array), and no other
\* message has a preface.
C18_SystemMessages ==
    Converted =>
        LET src == rq.body.messages
            out == rq.conv.messages
            p == FindUserFrom(out, 1)
            preface == Preface(Join(SystemTexts(src), <<"\n\n">>))
        IN /\ \A q \in 1..Len(out) : out[q].role # "system"
           /\ rq.conv.system = Undefined
           /\ (Len(SelectSeq(src, IsSystem)) > 0 /\ p # 0) =>
                /\ IF out[p].ckind = "string"
                   THEN StartsWith(out[p].text, preface \o <<"\n">>)
                   ELSE Len(out[p].blocks) > 0
                        /\ out[p].blocks[1] = Block("text", preface, "", 0)
                /\ \A q \in 1..Len(out) : q # p => ~HasBracket(out[q])

\* the converted messages without the positions in the source
Untag(messages) ==
    [q \in 1..Len(messages) |->
        [messages[q] EXCEPT !.blocks =
            [b \in 1..Len(messages[q].blocks) |-> [messages[q].blocks[b] EXCEPT !.from = 0]]]]

\* C19: when the source has system messages, convertMessages throws only
\* if it throws on the source without them, and when it returns no message
\* of role user the converted messages are exactly those of the source
\* without its system messages.
C19_SystemWithoutUser ==
    (rq.pc = "done" /\ rq.body.shape = "array"
        /\ Len(SelectSeq(rq.body.messages, IsSystem)) > 0) =>
        LET without == convertMessages(SelectSeq(rq.body.messages, NotSystem))
        IN /\ rq.conv.threw = without.threw
           /\ (~rq.conv.threw /\ FindUserFrom(rq.conv.messages, 1) = 0) =>
                 Untag(rq.conv.messages) = Untag(without.messages)

\* a system message and assistant messages only
C19_Witness ==
    /\ Converted
    /\ Len(rq.body.messages) = 3
    /\ rq.body.messages[1] = Message("system", "string", <<"S1">>, <<>>, <<>>, "")
    /\ rq.body.messages[2].role = "assistant"
    /\ rq.body.messages[3].role = "assistant"
    /\ Roles(rq.conv.messages) = <<"assistant", "assistant">>
    /\ rq.conv.messages[1] = ClaudeMessage("assistant", "string", <<"ok">>, <<>>)

\* the body lacks its model, its messages are absent or no array, or an
\* assistant tool call has arguments that are no JSON
Malformed(body) ==
    \/ body.model = Undefined
    \/ body.shape # "array"
    \/ \E i \in 1..Len(body.messages) :
          body.messages[i].role \in {"user", "assistant"}
          /\ ParseThrows(body.messages[i].tool_calls)

\* C20: a malformed request (handled with the API key configured) is
\* answered with a status of the 4xx class and an error body, and no call
\* to the upstream is made for it.
C20_MalformedRequest ==
    (rq.pc = "done" /\ rq.reply.type # "config_error" /\ Malformed(rq.body)) =>
        /\ rq.reply.status \in 400..499
        /\ rq.reply.type \in {"provider_error", "conversion_error"}
        /\ ~rq.reply.outbound

(***************************************************************************)
(* The non-stream response converter                                       *)
(***************************************************************************)
NormalDone == nr.pc = "done"

\* the blocks of one type, in array order
BlocksOfType(content, type) == SelectSeq(content, LAMBDA b : b.type = type)

\* the texts of a sequence of blocks, one after the other
RECURSIVE ConcatTexts(_)
ConcatTexts(blocks) ==
    IF Len(blocks) = 0 THEN <<>> ELSE blocks[1].text \o ConcatTexts(Tail(blocks))

\* the content the text and thinking blocks call for: the texts in order,
\* after the wrapped thinking texts when these are not empty
ExpectedText(content) ==
    LET text == ConcatTexts(BlocksOfType(content, "text"))
        thinking == ConcatTexts(BlocksOfType(content, "thinking"))
    IN IF thinking # <<>>
       THEN <<"<thinking>", "\n">> \o thinking \o <<"\n", "</thinking>", "\n\n">> \o text
       ELSE text

\* C23 as stated: the content is the expected text as a string whenever the
\* response has a text block or thinking text; for a single text block and
\* no thinking block it is that block's text; it is null when the response
\* has neither a text block nor a thinking block.
C23_NormalText ==
    NormalDone =>
        LET content == nr.claudeData.content
            texts == BlocksOfType(content, "text")
            thinkings == BlocksOfType(content, "thinking")
        IN /\ (Len(texts) > 0 \/ ConcatTexts(thinkings) # <<>>) =>
                 nr.out.content = StringContent(ExpectedText(content))
           /\ (Len(texts) = 1 /\ Len(thinkings) = 0) =>
                 nr.out.content = StringContent(texts[1].text)
           /\ (Len(texts) = 0 /\ Len(thinkings) = 0) => nr.out.content = NullContent

\* C23 amended: the content is the expected text (the text blocks in array
\* order, after the wrapped thinking texts when these are not empty) as a
\* string when that text is not empty, and null when it is empty: when
\* there is no text or thinking block, and also when all of them are empty.
C23_NormalTextNonEmpty ==
    NormalDone =>
        nr.out.content =
            IF ExpectedText(nr.claudeData.content) # <<>>
            THEN StringContent(ExpectedText(nr.claudeData.content))
            ELSE NullContent

\* text, thinking, text: the thinking comes first in the content
C23_Witness ==
    /\ NormalDone
    /\ Len(nr.claudeData.content) = 3
    /\ nr.claudeData.content[1] = ContentBlock("text", <<"a">>, "")
    /\ nr.claudeData.content[2] = ContentBlock("thinking", <<"t">>, "")
    /\ nr.claudeData.content[3] = ContentBlock("text", <<"b">>, "")
    /\ nr.out.content.text = <<"<thinking>", "\n", "t", "\n", "</thinking>", "\n\n", "a", "b">>

\* C24: with a usage in the upstream body the converted usage has
\* prompt_tokens = input_tokens, completion_tokens = output_tokens and
\* total_tokens = their sum; without one the converted body has no usage,
\* and the conversion is done all the same.
C24_Usage ==
    NormalDone =>
        IF nr.claudeData.usage.present
        THEN /\ nr.out.usage.present
             /\ nr.out.usage.a = nr.claudeData.usage.a
             /\ nr.out.usage.b = nr.claudeData.usage.b
             /\ nr.out.usage.total = nr.claudeData.usage.a + nr.claudeData.usage.b
        ELSE nr.out.usage = NoUsage

\* 7 input tokens and 11 output tokens
C24_Witness ==
    /\ NormalDone
    /\ nr.claudeData.usage = ClaudeUsage(7, 11)
    /\ nr.out.usage = OpenAIUsage(7, 11, 18)

(***************************************************************************)
(* The request builders and the handlers of the chat-completions endpoint  *)
(***************************************************************************)
\* a request was handled on the Claude route and a target request was built
ClaudeTargetBuilt ==
    rq.pc = "done" /\ rq.proxyType = "claude" /\ rq.reply.target.built

\* C25: whatever the temperature of the source request, the target request
\* built by convertToProviderRequest (stream false) or convertStreamWithSDK
\* (stream true) has no temperature field.
C25_NoTemperature ==
    ClaudeTargetBuilt => ~rq.reply.target.temperature.present

\* a non-stream request with temperature 1
C25_Witness ==
    /\ ClaudeTargetBuilt
    /\ rq.body.temperature = Number(1)
    /\ ~rq.body.stream
    /\ rq.reply.outbound
    /\ rq.reply.target.temperature = NoNumber

\* fetchWithRetry ended with a response that is not 2xx
UpstreamError ==
    /\ rq.pc = "done"
    /\ rq.reply.viaRetry
    /\ rq.upstream.status # RetryThrew
    /\ rq.upstream.status \notin 200..299

\* C26 as stated: on the non-stream path a non-2xx response of the retrying
\* transport is answered with the same status and with the upstream body
\* unchanged, and no response converter is applied.
C26_UpstreamErrorVerbatim ==
    (UpstreamError /\ ~rq.body.stream) =>
        /\ rq.reply.status = rq.upstream.status
        /\ rq.reply.details = rq.upstream.body
        /\ ~rq.reply.converted

\* C26 amended: the answer has the status of the upstream and is an error
\* body of type provider_error whose details field is the text of the
\* upstream body: equal to it when the body is UTF-8, with U+FFFD in the
\* place of what is not; no response converter is applied.
C26_UpstreamErrorAsText ==
    (UpstreamError /\ ~rq.body.stream) =>
        /\ rq.reply.status = rq.upstream.status
        /\ rq.reply.type = "provider_error"
        /\ Len(rq.reply.details) = Len(rq.upstream.body)
        /\ \A i \in 1..Len(rq.upstream.body) :
             rq.reply.details[i] =
                IF rq.upstream.body[i] = "\\xFF" THEN "\\uFFFD" ELSE rq.upstream.body[i]
        /\ ~rq.reply.converted

\* a 503 left after the retries, on the Claude route
C26_Witness ==
    /\ UpstreamError
    /\ rq.proxyType = "claude"
    /\ ~rq.body.stream
    /\ rq.upstream = [status |-> 503, body |-> <<"E">>]
    /\ rq.reply.status = 503
    /\ rq.reply.details = <<"E">>

\* C28: a request with stream = true is never sent through fetchWithRetry,
\* whichever handler the route selects.
C28_NoRetryWhenStreaming ==
    (rq.pc = "done" /\ rq.body.stream) => ~rq.reply.viaRetry

\* C30 as stated: max_tokens of the target is the request's max_tokens when
\* present and 4096 otherwise for a non-reasoning alias, the larger of
\* 16000 and the request's max_tokens (16000 when absent) for a reasoning
\* alias; the stream flag of the target is that of the request.
C30_TokenBudget ==
    ClaudeTargetBuilt =>
        /\ rq.body.model \notin THINKING_MODELS =>
              rq.reply.target.max_tokens =
                 IF rq.body.max_tokens.present THEN rq.body.max_tokens.value ELSE 4096
        /\ rq.body.model \in THINKING_MODELS =>
              rq.reply.target.max_tokens =
                 IF rq.body.max_tokens.present /\ rq.body.max_tokens.value > 16000
                 THEN rq.body.max_tokens.value ELSE 16000
        /\ rq.reply.target.stream = rq.body.stream

\* C30 amended: a max_tokens of 0 counts as absent.
C30_TokenBudgetNonZero ==
    ClaudeTargetBuilt =>
        /\ rq.body.model \notin THINKING_MODELS =>
              rq.reply.target.max_tokens =
                 IF rq.body.max_tokens.present /\ rq.body.max_tokens.value # 0
                 THEN rq.body.max_tokens.value ELSE 4096
        /\ rq.body.model \in THINKING_MODELS =>
              rq.reply.target.max_tokens =
                 IF rq.body.max_tokens.present /\ rq.body.max_tokens.value > 16000
                 THEN rq.body.max_tokens.value ELSE 16000
        /\ rq.reply.target.stream = rq.body.stream

\* a reasoning alias with max_tokens 1000, raised to 16000
C30_Witness ==
    /\ ClaudeTargetBuilt
    /\ rq.body.model = "tinyy-model"
    /\ rq.body.max_tokens = Number(1000)
    /\ rq.body.stream
    /\ rq.reply.target.max_tokens = 16000
    /\ rq.reply.target.stream

(***************************************************************************)
(* The mapping table under requests in flight                              *)
(***************************************************************************)
\* the default table overridden by one partial table, key by key
Overridden(partial) ==
    [k \in AllKeys |-> IF partial[k] # Undefined THEN partial[k] ELSE DEFAULT_MODEL_MAPPING[k]]

\* the tables that were ever complete: the default one and the default one
\* overridden by a partial table handed to setModelMapping so far
CompleteTables == {Overridden(EmptyTable)} \cup {Overridden(p) : p \in cc.handed}

\* C27: whatever save requests and other requests run between the awaits
\* of a chat request, the table its mapModelName read is one of the
\* complete tables (the default table overridden by one partial as a
\* whole), has every default key, and its result is the lookup in that one
\* table.
C27_AtomicReplace ==
    \A r \in ChatRequests :
        cc.req[r].pc = "resolved" =>
            /\ cc.req[r].saw \in CompleteTables
            /\ \A k \in DefaultKeys : cc.req[r].saw[k] # Undefined
            /\ cc.req[r].result =
                  IF cc.req[r].saw[cc.req[r].alias] # Undefined
                  THEN cc.req[r].saw[cc.req[r].alias]
                  ELSE cc.req[r].alias

\* a save request replaced the table between the initConfig of a chat
\* request and its mapModelName, while the other chat request resolved
\* before the replace
C27_Witness ==
    /\ cc.req["chat1"].pc = "resolved"
    /\ cc.req["chat2"].pc = "resolved"
    /\ ~cc.req["chat1"].loaded.present
    /\ ~cc.req["chat2"].loaded.present
    /\ cc.req["chat1"].alias = "tinyy-model"
    /\ cc.req["chat2"].alias = "tinyy-model"
    /\ cc.req["chat1"].result = "claude-x"
    /\ cc.req["chat2"].result = "claude-sonnet-4-5-20250929"
    /\ cc.req["save"].pc = "put"

\* a text_delta line has just been read from the upstream
TextDeltaRead == h.end = "none" /\ ev.type = "content_block_delta" /\ ev.kind = "text_delta"

\* the content block opened last is a text block, still open, followed by
\* text_delta lines only
TextBlock == h.end = "none" /\ h.blk.kind = "text" /\ h.blk.pure /\ h.blk.open

StringsOf(out) == [i \in DOMAIN out |-> out[i].s]

ReadsOf(queue) == {queue[i] : i \in DOMAIN queue}

\* C22: on either entry point a read of the upstream is outstanding only
\* when the client has taken every chunk of the reads before it, and the
\* chunks the client has not taken come from one read at most.
C22_Backpressure ==
    /\ io.pc = "read" => io.queue = <<>>
    /\ Cardinality(ReadsOf(io.queue)) <= 1

\* C21: once the client has cancelled, the task issues no further read of
\* the upstream, and when it ends it has released the upstream reader or
\* connection.
C21_Cancellation ==
    io.client = "cancelled" =>
        /\ io.readsAfterCancel = 0
        /\ io.pc = "closed" => io.released

(***************************************************************************)
(* The shape of the whole output stream                                    *)
(***************************************************************************)
\* the sentinel is the last chunk and a finish-reason chunk precedes it;
\* no content or tool-call chunk follows a finish-reason chunk
Ordered(out) ==
    /\ \A i \in DOMAIN out :
          out[i].k = "done" =>
              /\ i = Len(out)
              /\ \E j \in 1..(i - 1) : out[j].k = "finish"
    /\ \A i \in DOMAIN out : \A j \in DOMAIN out :
          (i < j /\ out[i].k = "finish") => out[j].k \notin {"content", "tool"}

\* C33: at every moment, on both entry points, no chunk follows the
\* sentinel, a finish-reason chunk precedes the sentinel, and no content or
\* tool-call chunk follows a finish-reason chunk.
C33_OutputOrdering == Ordered(m.out) /\ Ordered(s.out)

\* C34: when the upstream has ended, whatever lines it delivered, each
\* entry point has emitted exactly one finish-reason chunk.
C34_SingleFinishReason ==
    (h.end = "eof" /\ ~h.finalThrew) =>
        /\ CountK(m.out, "finish") = 1
        /\ CountK(s.out, "finish") = 1

IsTag(c) == c.k = "content" /\ c.s \in {OpenTag, CloseTag}

TagsOf(out) == SelectSeq(out, IsTag)

\* the delimiter chunks alternate, an opening one first, and none is open
\* where a finish-reason chunk or the sentinel stands
Balanced(out) ==
    /\ \A i \in DOMAIN TagsOf(out) : (TagsOf(out)[i].s = OpenTag) <=> (i % 2 = 1)
    /\ \A i \in DOMAIN out :
          out[i].k \in {"finish", "done"} => Len(TagsOf(SubSeq(out, 1, i))) % 2 = 0

\* C35: at every moment, on both entry points, opening and closing
\* delimiter chunks alternate starting with an opening one, and every
\* opening delimiter has its closing delimiter before the finish-reason
\* chunk and the sentinel, also when the upstream ends or fails inside a
\* thinking block.
C35_BalancedDelimiters == Balanced(m.out) /\ Balanced(s.out)

IsTool(c) == c.k = "tool"

ToolsOf(out) == SelectSeq(out, IsTool)

Consecutive(tools) == \A i \in DOMAIN tools : tools[i].index = i - 1

\* C36: at every moment, on both entry points, the tool-call chunks carry
\* the indices 0, 1, 2, ... in the order of their emission, without gap or
\* repeat.
C36_ToolCallIndices == Consecutive(ToolsOf(m.out)) /\ Consecutive(ToolsOf(s.out))

\* once the upstream has ended or failed the output streams are closed and
\* the reader lock is released; without a body the output is closed
C37_Closed ==
    /\ h.end \in {"eof", "error"} =>
          m.closed /\ m.released /\ m.pc = "closed" /\ s.closed /\ s.pc = "closed"
    /\ h.end = "nobody" => m.closed /\ m.pc = "closed"

\* C37: whatever the upstream did (normal end, truncation, read error,
\* unparseable lines), once it has stopped each output stream is closed and
\* the reader lock released, and a closed stream is neither closed again
\* nor given another chunk.
C37_OutputCloses ==
    [](C37_Closed) /\ [][(m.closed => m' = m) /\ (s.closed => s' = s)]_vars

\* the upstream ended on an unparseable line after lines that produced
\* chunks, and both outputs are closed
C37_Witness ==
    /\ h.end = "eof" /\ ev.type = "bad" /\ n = MaxLines
    /\ m.closed /\ m.released /\ s.closed
    /\ Len(m.out) > 2

(***************************************************************************)
(* Image parts                                                             *)
(***************************************************************************)
\* <media type>;base64,<payload> after the prefix data:, split at the first
\* ";base64," marker that leaves a media type and a payload
SplitAtFirstMarker(imageUrl) ==
    LET Markers == {k \in 3..(Len(imageUrl) - 2) :
                       imageUrl[k] = ";" /\ imageUrl[k + 1] = "base64,"}
    IN IF StartsWithData(imageUrl) /\ Markers # {}
       THEN LET k == CHOOSE x \in Markers : \A y \in Markers : x <= y
            IN [matched |-> TRUE, media_type |-> SubSeq(imageUrl, 2, k - 1),
                data |-> SubSeq(imageUrl, k + 2, Len(imageUrl))]
       ELSE [matched |-> FALSE, media_type |-> <<>>, data |-> <<>>]


\* C32: an image part whose URL starts with data: and has the form
\* <media type>;base64,<payload> becomes one base64 image block with that
\* media type and payload; a data: URL of another form is dropped and the
\* conversion does not fail; an image part with any other URL becomes one
\* text block naming the URL.
C32_ImageParts ==
    (im.pc = "done" /\ im.url # NoImageUrl) =>
        /\ ~im.threw
        /\ IF StartsWithData(im.url)
           THEN IF SplitAtFirstMarker(im.url).matched
                THEN im.content = <<ImageBlock(SplitAtFirstMarker(im.url).media_type,
                                               SplitAtFirstMarker(im.url).data, 1)>>
                ELSE im.content = <<>>
           ELSE im.content = <<Block("text", <<"[Image URL: ">> \o im.url \o <<"]">>, "", 1)>>

\* C38: whenever the target request carries the thinking flag, on both
\* builders and for every max_tokens of the source request, its max_tokens
\* is greater than the budget_tokens of the flag, which is 10000.
C38_BudgetOrdering ==
    (ClaudeTargetBuilt /\ rq.reply.target.thinking) =>
        /\ rq.reply.target.budget_tokens = 10000
        /\ rq.reply.target.max_tokens > rq.reply.target.budget_tokens

\* a streamed request for a reasoning alias with max_tokens 10000
C38_Witness ==
    /\ ClaudeTargetBuilt /\ rq.reply.target.thinking
    /\ rq.body.stream
    /\ rq.body.max_tokens = Number(10000)
    /\ rq.reply.target.max_tokens = 16000

(***************************************************************************)
(* A saved mapping and the requests in flight                              *)
(***************************************************************************)
\* request r resolves its model in this step, while the KV entry holds the
\* mapping of the last save request that returned and no save request is in
\* flight
ResolvesAfterSave(r) ==
    /\ cc.req[r].pc = "handle"
    /\ cc'.req[r].pc = "resolved"
    /\ cc.kv.present
    /\ cc.req["save"].pc = "idle"

\* C39: once a save request has returned for a mapping M and no later save
\* request has come, every model resolution reads the default table
\* overridden by M, whatever requests ran initConfig while the save request
\* was in flight.
C39_SavedMappingTakesEffect ==
    [][\A r \in ChatRequests :
          ResolvesAfterSave(r) =>
              /\ cc'.req[r].saw = Overridden(cc.kv.table)
              /\ cc'.req[r].result =
                    mapModelName(Overridden(cc.kv.table), cc'.req[r].alias)]_vars

(***************************************************************************)
(* The stored request logs                                                 *)
(***************************************************************************)
Reverse(seq) == [i \in 1..Len(seq) |-> seq[Len(seq) + 1 - i]]

\* the count entries stored last, the newest first
NewestFirst(saved, count) ==
    Reverse(SubSeq(saved, IF Len(saved) > count THEN Len(saved) - count + 1 ELSE 1,
                   Len(saved)))

\* C40: after any calls of saveRequestLog, interleaved or not, the stored
\* list holds at most 5 entries, and they are the 5 entries saved last, the
\* newest first.
C40_LogRetention ==
    /\ Len(lg.stored) <= 5
    /\ lg.stored = NewestFirst(lg.saved, 5)

(***************************************************************************)
(* Read boundaries                                                         *)
(***************************************************************************)
\* the lines, each handled as an event
RECURSIVE EventsHandled(_, _)
EventsHandled(acc, lines) ==
    IF lines = <<>> THEN acc
    ELSE EventsHandled(MLine(acc, Head(lines)), Tail(lines))

\* the output for a body whose lines are all handled as events
OutputOf(lines) ==
    MEndOfStream(EventsHandled([MInit EXCEPT !.pc = "reading"], lines), NoLine).out

\* C31: for the same bytes of the upstream the output is the same however
\* the bytes are cut into reads, and it is the output of the events of all
\* data lines, the last one handled like the others when its line feed is
\* missing.
C31_ReadBoundaryIndependence ==
    rd.pc = "done" => rd.m.out = OutputOf(rd.lines)

====
